---- MODULE Spec2Model ----
\* DataInsightStudio: the column classifier, the upload path, the grouped
\* statistics, the dataset store and the session/auth gate, as state machines.
\*
\* Library behaviour (pandas 2.x, SQLAlchemy, Streamlit 1.3x) is modelled by
\* what the calls in the source do:
\*   - DataFrame.to_json(orient="records", date_format="iso") writes one object
\*     per row, keys in column order; a frame without rows writes "[]";
\*   - pandas.read_json(orient="records") rebuilds the columns from the keys of
\*     the objects it reads and infers each column's dtype from its values;
\*   - pandas.to_numeric(errors="coerce") turns every value that is no number
\*     into NaN and always returns a numeric column;
\*   - sqlalchemy.create_engine(None) and create_all() on an unreachable
\*     database raise.
EXTENDS Integers, Sequences, FiniteSets, TLC

VARIABLES
    \* ---- environment and persistence backend (utils/database.py)
    backend,              \* "ok" | "down" | "unconfigured" (DATABASE_URL unset)
    dbLoaded,             \* utils.database imported: engine + create_all done
    datasets,             \* the datasets table: id -> row
    nextId,               \* the primary-key sequence
    now,                  \* datetime.utcnow(), as a counter
    db_session,           \* the SessionLocal() of the last store call
    \* ---- st.session_state
    registered_users,     \* username -> credential record
    is_authenticated,
    username,
    user_id,
    data,                 \* the session's DataFrame, or NoData
    filename,
    column_types,
    page,                 \* "app" | "saved"
    selected_dataset_id,
    \* ---- the last call made and what it returned
    lastOp,
    ret,
    \* ---- harness of the pure functions: the argument, the value, the stage
    input,
    output,
    pc

vars == <<backend, dbLoaded, datasets, nextId, now, db_session, registered_users,
          is_authenticated, username, user_id, data, filename, column_types,
          page, selected_dataset_id, lastOp, ret, input, output, pc>>

storeVars == <<backend, dbLoaded, datasets, nextId, now, db_session>>
authVars == <<registered_users, is_authenticated, username, user_id>>
sessionVars == <<data, filename, column_types, page, selected_dataset_id>>
harnessVars == <<input, output, pc>>

\* ---------------------------------------------------------------- values
\* A cell is <<tag, k>>: a number k, the k-th text value, the k-th timestamp,
\* a boolean (k = 0, 1) or the missing marker (NaN / None / NaT).
Num(k) == <<"num", k>>
Str(k) == <<"str", k>>
Ts(k) == <<"ts", k>>
Null == <<"null", 0>>

Bool(k) == <<"bool", k>>
\* The text value that is timestamp k written in ISO format.
IsoStr(k) == <<"iso", k>>

\* Python's None: for a text, and for an id (ids start at 1, and the code
\* only tests an id for truth).
None == "None"
NoId == 0
\* The session a store call leaves behind: none acquired, acquired and
\* closed, or acquired and still open when the call returns.
NoSession == "none"
SessionClosed == "closed"
SessionOpen == "open"
\* What a call returned, tagged with its kind.
RetNone == [kind |-> "None"]
RetId(id) == [kind |-> "id", id |-> id]
RetBool(b) == [kind |-> "bool", value |-> b]
RetOk == [kind |-> "ok", raised |-> FALSE]
NoData == [columns |-> <<>>, dtypes |-> <<>>, rows |-> <<>>, none |-> TRUE]

\* A DataFrame: column labels in order, one dtype per column, rows of cells.
Frame(columns, dtypes, rows) ==
    [columns |-> columns, dtypes |-> dtypes, rows |-> rows, none |-> FALSE]

Range(s) == {s[i] : i \in DOMAIN s}

ColumnCells(df, i) == [r \in DOMAIN df.rows |-> df.rows[r][i]]

\* Mutant: nunique(dropna=False), the missing marker counted as a value.
nunique_keepna(df, i) == Cardinality({df.rows[r][i] : r \in DOMAIN df.rows})

\* Series.nunique(): the distinct values, missing markers dropped.
nunique(df, i) == Cardinality({df.rows[r][i] : r \in DOMAIN df.rows} \ {Null})

\* Series.count(): the non-missing values.
count(df, i) == Cardinality({r \in DOMAIN df.rows : df.rows[r][i] # Null})

\* DataFrame.shape
shape(df) == <<Len(df.rows), Len(df.columns)>>

\* pandas.api.types.is_numeric_dtype / is_datetime64_dtype
is_numeric_dtype(dtype) == dtype \in {"int64", "float64", "bool"}
is_datetime64_dtype(dtype) == dtype = "datetime64"

\* ------------------------------------------------- utils/data_processor.py
CategoricalMaxUnique == 10
\* unique_count / len(data) < 0.05, in integers: 0.05 = 1/RatioDenominator
RatioDenominator == 20

\* The branch of get_column_types taken for one column. The ratio is evaluated
\* only when the first disjunct is false (Python's `or`), so n = 0 with
\* unique_count >= 10 would divide by zero.
\* Mutant: both conditions required (`and` for `or`).
ClassifyColumnAndRule(dtype, unique_count, n) ==
    IF is_numeric_dtype(dtype) THEN "numeric"
    ELSE IF is_datetime64_dtype(dtype) THEN "datetime"
    ELSE IF unique_count < CategoricalMaxUnique
            /\ (n > 0 /\ unique_count * RatioDenominator < n)
    THEN "categorical"
    ELSE "text"

\* Mutant: the ratio is tested first, so it is evaluated for every column
\* that is neither numeric nor datetime.
ClassifyColumnRatioFirst(dtype, unique_count, n) ==
    IF is_numeric_dtype(dtype) THEN "numeric"
    ELSE IF is_datetime64_dtype(dtype) THEN "datetime"
    ELSE IF n = 0 THEN "ZeroDivisionError"
    ELSE IF unique_count * RatioDenominator < n THEN "categorical"
    ELSE IF unique_count < CategoricalMaxUnique THEN "categorical"
    ELSE "text"

ClassifyColumn(dtype, unique_count, n) ==
    IF is_numeric_dtype(dtype) THEN "numeric"
    ELSE IF is_datetime64_dtype(dtype) THEN "datetime"
    ELSE IF unique_count < CategoricalMaxUnique THEN "categorical"
    ELSE IF n = 0 THEN "ZeroDivisionError"
    ELSE IF unique_count * RatioDenominator < n THEN "categorical"
    ELSE "text"

ColumnKind(df, i) == ClassifyColumn(df.dtypes[i], nunique(df, i), Len(df.rows))

\* The list get_column_types builds under key `kind`: the loop appends each
\* column, in column order, to the list of the branch it takes.
RECURSIVE AppendKind(_, _, _)
AppendKind(df, kind, i) ==
    IF i = 0 THEN <<>>
    ELSE IF ColumnKind(df, i) = kind
         THEN Append(AppendKind(df, kind, i - 1), df.columns[i])
         ELSE AppendKind(df, kind, i - 1)

NoColumnTypes == [numeric |-> <<>>, categorical |-> <<>>, datetime |-> <<>>,
                  text |-> <<>>, raised |-> FALSE, empty |-> TRUE]

\* Mutant: `if` for the first `elif`, so that a numeric column also falls
\* through to the categorical/text branch.
get_column_types_if(df) ==
    LET Rest(i) == ClassifyColumn("object", nunique(df, i), Len(df.rows))
        RestList(kind) ==
            SelectSeq(df.columns,
                      LAMBDA c : \E i \in DOMAIN df.columns :
                                    /\ df.columns[i] = c
                                    /\ ~is_datetime64_dtype(df.dtypes[i])
                                    /\ Rest(i) = kind)
    IN  [numeric |-> AppendKind(df, "numeric", Len(df.columns)),
         categorical |-> RestList("categorical"),
         datetime |-> AppendKind(df, "datetime", Len(df.columns)),
         text |-> RestList("text"),
         raised |-> FALSE,
         empty |-> FALSE]

get_column_types(df) ==
    [numeric |-> AppendKind(df, "numeric", Len(df.columns)),
     categorical |-> AppendKind(df, "categorical", Len(df.columns)),
     datetime |-> AppendKind(df, "datetime", Len(df.columns)),
     text |-> AppendKind(df, "text", Len(df.columns)),
     raised |-> \E i \in DOMAIN df.columns : ColumnKind(df, i) = "ZeroDivisionError",
     empty |-> FALSE]

\* An exception raised by a call, as its outcome.
Raised(what) == [kind |-> "raised", raised |-> TRUE, error |-> what]

\* pd.read_csv / pd.read_excel: the dtype inferred for column i of the parsed
\* cells. Numbers (and blanks) give a numeric column, booleans a bool column,
\* timestamps (Excel) a datetime column, anything else an object column.
InferDtype(rows, i) ==
    LET tags == {rows[r][i][1] : r \in DOMAIN rows} \ {"null"}
    IN  IF tags \subseteq {"num"} THEN "float64"
        ELSE IF tags = {"bool"} THEN "bool"
        ELSE IF tags = {"ts"} THEN "datetime64"
        ELSE "object"

\* data.dropna(axis=1, how='all'): the columns with no non-missing value go.
dropna_columns(df) ==
    LET keep == SelectSeq([i \in DOMAIN df.columns |-> i],
                          LAMBDA i : count(df, i) > 0)
    IN  Frame([j \in DOMAIN keep |-> df.columns[keep[j]]],
              [j \in DOMAIN keep |-> df.dtypes[keep[j]]],
              [r \in DOMAIN df.rows |-> [j \in DOMAIN keep |-> df.rows[r][keep[j]]]])

\* pd.to_numeric(value, errors='coerce') of one cell of an object column: a
\* number stays, everything else becomes NaN.
to_numeric(cell) == IF cell[1] = "num" THEN cell ELSE Null

\* load_data, lines 38-45: every column of dtype object is replaced by
\* pd.to_numeric(column, errors='coerce').
CoerceObjectColumns(df) ==
    Frame(df.columns,
          [i \in DOMAIN df.columns |->
              IF df.dtypes[i] = "object" THEN "float64" ELSE df.dtypes[i]],
          [r \in DOMAIN df.rows |->
              [i \in DOMAIN df.columns |->
                  IF df.dtypes[i] = "object" THEN to_numeric(df.rows[r][i])
                  ELSE df.rows[r][i]]])

\* An uploaded file: the part of its name before the first dot, its
\* extension, whether the parser accepts it, and the header and cells the
\* parser reads from it.
UploadedFile(stem, ext, parses, columns, rows) ==
    [stem |-> stem, ext |-> ext, parses |-> parses,
     columns |-> columns, rows |-> rows, none |-> FALSE]

NoFileName == <<None, None>>
\* uploaded_file.name, and filename.split('.')[0]
FileName(f) == <<f.stem, f.ext>>

load_data(uploaded_file) ==
    IF uploaded_file.ext \notin {"csv", "xlsx", "xls"}
    THEN Raised("ValueError: Unsupported file format")
    ELSE IF ~uploaded_file.parses
    THEN Raised("ParserError")
    ELSE LET read == Frame(uploaded_file.columns,
                           [i \in DOMAIN uploaded_file.columns |->
                               InferDtype(uploaded_file.rows, i)],
                           uploaded_file.rows)
         IN  [raised |-> FALSE,
              data |-> CoerceObjectColumns(dropna_columns(read)),
              filename |-> FileName(uploaded_file)]

\* ----------------------------------------------------- utils/statistics.py
\* data.select_dtypes(include=np.number): bool is not a NumPy number.
is_np_number(dtype) == dtype \in {"int64", "float64"}

\* data[col].value_counts(): the count of each non-missing value.
value_counts(df, i) ==
    [v \in {df.rows[r][i] : r \in DOMAIN df.rows} \ {Null} |->
        Cardinality({r \in DOMAIN df.rows : df.rows[r][i] = v})]

\* A cell of the result that was never assigned (NaN), the None the guard
\* assigns, and an assigned value.
Unassigned == [kind |-> "nan", among |-> {}, num |-> 0, den |-> 0]
NoDataMarker == [kind |-> "None", among |-> {}, num |-> 0, den |-> 0]

\* value_counts().index[0] and value_counts().iloc[0] / len(data) * 100: the
\* first entry is a value of the highest count (`among`: the values of that
\* count, the order of equal counts being pandas' own), the percentage the
\* fraction num/den. Indexing the empty table raises IndexError.
first_entry(vc, n) ==
    IF DOMAIN vc = {} THEN [kind |-> "IndexError", among |-> {}, num |-> 0, den |-> 0]
    ELSE LET top == CHOOSE c \in Range(vc) : \A d \in Range(vc) : d <= c
         IN  [kind |-> "value", among |-> {v \in DOMAIN vc : vc[v] = top},
              num |-> 100 * top, den |-> n]

\* `<first entry> if not data[col].value_counts().empty else None`
most_common(vc, n) ==
    IF DOMAIN vc # {} THEN first_entry(vc, n) ELSE NoDataMarker

\* generate_descriptive_stats: describe(include='all').transpose() has one
\* row per column of the table and raises on a table without columns; the
\* loop over the columns that are not NumPy numbers adds the most-frequent
\* value and its percentage, and an exception of a row leaves the function.
generate_descriptive_stats(df) ==
    IF Len(df.columns) = 0
    THEN Raised("ValueError: Cannot describe a DataFrame without columns")
    ELSE LET common == [i \in DOMAIN df.columns |->
                           IF is_np_number(df.dtypes[i]) THEN Unassigned
                           ELSE most_common(value_counts(df, i), Len(df.rows))]
         IN  IF \E i \in DOMAIN df.columns : common[i].kind = "IndexError"
             THEN Raised("IndexError: index 0 is out of bounds")
             ELSE [raised |-> FALSE,
                   index |-> df.columns,
                   row |-> [i \in DOMAIN df.columns |->
                               [count |-> count(df, i),
                                numeric |-> is_np_number(df.dtypes[i]),
                                missing |-> Len(df.rows) - count(df, i),
                                most_common |-> common[i]]]]

\* The sums Pearson's coefficient of columns i and j is computed from, over
\* the rows lo..hi where both are present: <<m, Sx, Sy, Sxy, Sxx, Syy>>
\* (summed by halves, to keep the evaluation shallow).
RECURSIVE PairSumsOver(_, _, _, _, _)
PairSumsOver(df, i, j, lo, hi) ==
    IF lo > hi THEN <<0, 0, 0, 0, 0, 0>>
    ELSE IF lo = hi
    THEN LET x == df.rows[lo][i]
             y == df.rows[lo][j]
         IN  IF x = Null \/ y = Null THEN <<0, 0, 0, 0, 0, 0>>
             ELSE <<1, x[2], y[2], x[2] * y[2], x[2] * x[2], y[2] * y[2]>>
    ELSE LET mid == (lo + hi) \div 2
             l == PairSumsOver(df, i, j, lo, mid)
             h == PairSumsOver(df, i, j, mid + 1, hi)
         IN  [k \in 1..6 |-> l[k] + h[k]]

PairSums(df, i, j) == PairSumsOver(df, i, j, 1, Len(df.rows))

\* One entry of DataFrame.corr(): "nan" when a column has no variance over
\* the common rows, else the sign of the coefficient (the sign of the
\* covariance m*Sxy - Sx*Sy), 1 on the diagonal.
corr_entry(df, i, j) ==
    LET p == PairSums(df, i, j)
        cov == p[1] * p[4] - p[2] * p[3]
        varx == p[1] * p[5] - p[2] * p[2]
        vary == p[1] * p[6] - p[3] * p[3]
    IN  IF varx = 0 \/ vary = 0 THEN "nan"
        ELSE IF cov > 0 THEN "positive"
        ELSE IF cov < 0 THEN "negative"
        ELSE "zero"

ColumnIndex(df, name) == CHOOSE i \in DOMAIN df.columns : df.columns[i] = name

\* Mutant: the degenerate case tested with <= 2.
generate_correlation_matrix_le(df, numeric_columns) ==
    IF Len(numeric_columns) <= 2
    THEN [kind |-> "message", index |-> <<0>>, columns |-> <<"message">>,
          cell |-> << >>]
    ELSE [kind |-> "matrix", index |-> numeric_columns, columns |-> numeric_columns,
          cell |-> [a \in Range(numeric_columns), b \in Range(numeric_columns) |->
                       corr_entry(df, ColumnIndex(df, a), ColumnIndex(df, b))]]

generate_correlation_matrix(df, numeric_columns) ==
    IF Len(numeric_columns) < 2
    THEN [kind |-> "message", index |-> <<0>>, columns |-> <<"message">>,
          cell |-> << >>]
    ELSE [kind |-> "matrix", index |-> numeric_columns, columns |-> numeric_columns,
          cell |-> [a \in Range(numeric_columns), b \in Range(numeric_columns) |->
                       corr_entry(df, ColumnIndex(df, a), ColumnIndex(df, b))]]

\* The values of `numeric_column` in the rows of group g, missing ones
\* dropped, in ascending order.
RECURSIVE Insert(_, _)
Insert(sorted, x) ==
    IF sorted = <<>> THEN <<x>>
    ELSE IF x <= Head(sorted) THEN <<x>> \o sorted
    ELSE <<Head(sorted)>> \o Insert(Tail(sorted), x)

RECURSIVE GroupValues(_, _, _, _, _)
GroupValues(df, vi, gi, g, r) ==
    IF r = 0 THEN <<>>
    ELSE IF df.rows[r][gi] = g /\ df.rows[r][vi] # Null
         THEN Insert(GroupValues(df, vi, gi, g, r - 1), df.rows[r][vi][2])
         ELSE GroupValues(df, vi, gi, g, r - 1)

RECURSIVE SumSeq(_)
SumSeq(xs) == IF xs = <<>> THEN 0 ELSE Head(xs) + SumSeq(Tail(xs))

\* Series.quantile(k/4) of ascending xs, times 4 (linear interpolation at
\* position (n-1)*k/4); "nan" for no values.
quantile4(xs, k) ==
    IF xs = <<>> THEN "nan"
    ELSE LET pos4 == (Len(xs) - 1) * k
             lo == pos4 \div 4 + 1
             frac4 == pos4 % 4
             hi == IF frac4 = 0 THEN lo ELSE lo + 1
         IN  4 * xs[lo] + frac4 * (xs[hi] - xs[lo])

\* grouped_stats['std'] / grouped_stats['mean'] * 100 in IEEE arithmetic, for
\* std = sqrt(varnum / (n*(n-1))) and mean = sum / n:
\*   std is NaN for n < 2; x/0 is inf for x > 0 and NaN for x = 0;
\*   otherwise the quotient is finite, recorded by its sign and by the square
\*   of cv/100 as the fraction num/den.
cv_of(n, sum, varnum) ==
    IF n < 2 THEN [kind |-> "nan", sign |-> 0, num |-> 0, den |-> 1]
    ELSE IF sum = 0
    THEN IF varnum = 0 THEN [kind |-> "nan", sign |-> 0, num |-> 0, den |-> 1]
         ELSE [kind |-> "inf", sign |-> 1, num |-> 0, den |-> 1]
    ELSE [kind |-> "finite",
          sign |-> IF varnum = 0 THEN 0 ELSE IF sum > 0 THEN 1 ELSE -1,
          num |-> varnum * n,
          den |-> (n - 1) * sum * sum]

\* One row of the grouped statistics. mean is sum/count; std is
\* sqrt(varnum / (count*(count-1))); Q1, median, Q3 are times 4.
GroupRow(df, vi, gi, g) ==
    LET xs == GroupValues(df, vi, gi, g, Len(df.rows))
        n == Len(xs)
        sum == SumSeq(xs)
        sumsq == SumSeq([k \in DOMAIN xs |-> xs[k] * xs[k]])
        varnum == n * sumsq - sum * sum
    IN  [group |-> g, count |-> n, sum |-> sum, varnum |-> varnum,
         min |-> IF n = 0 THEN "nan" ELSE xs[1],
         Q1 |-> quantile4(xs, 1), median |-> quantile4(xs, 2),
         Q3 |-> quantile4(xs, 3),
         max |-> IF n = 0 THEN "nan" ELSE xs[n],
         cv |-> cv_of(n, sum, varnum)]

\* The keys of data.groupby(group_column): the values of the column, missing
\* keys dropped, in ascending order.
RECURSIVE SortedKeys(_)
SortedKeys(keys) ==
    IF keys = {} THEN <<>>
    ELSE LET least == CHOOSE k \in keys : \A other \in keys : k[2] <= other[2]
         IN  <<least>> \o SortedKeys(keys \ {least})

calculate_statistics_by_group(df, numeric_column, group_column) ==
    LET vi == ColumnIndex(df, numeric_column)
        gi == ColumnIndex(df, group_column)
        keys == SortedKeys({df.rows[r][gi] : r \in DOMAIN df.rows} \ {Null})
    IN  [k \in DOMAIN keys |-> GroupRow(df, vi, gi, keys[k])]

\* ------------------------------------------------ classifier: the harness
\* Tables are generated from one description per column: its dtype, how many
\* distinct values it cycles through, and whether its last row is missing.
MaxCols == 2
MaxRows == 201
RowCounts == {0, 5, MaxRows - 1, MaxRows}
UniqueChoices == {0, CategoricalMaxUnique - 1, CategoricalMaxUnique}
Dtypes == {"float64", "bool", "datetime64", "object"}
ColNames == <<"a", "b", "c", "d", "e", "f">>

\* Object columns take every description; the other dtypes, whose branch
\* does not read the values, take few distinct values and no missing row
\* (float64 also the all-missing column).
ColSpecs ==
    {c \in [dtype : Dtypes, u : UniqueChoices, missing : BOOLEAN] :
        c.dtype # "object" =>
            /\ ~c.missing
            /\ c.u < CategoricalMaxUnique
            /\ (c.u = 0 => c.dtype = "float64")}

GenCell(dtype, u, r) ==
    IF u = 0 THEN Null
    ELSE LET k == (r - 1) % u
         IN  CASE dtype = "float64" -> Num(k)
               [] dtype = "bool" -> Bool(k % 2)
               [] dtype = "datetime64" -> Ts(k)
               [] OTHER -> Str(k)

GenFrame(n, cols) ==
    Frame([i \in DOMAIN cols |-> ColNames[i]],
          [i \in DOMAIN cols |-> cols[i].dtype],
          [r \in 1..n |->
              [i \in DOMAIN cols |->
                  IF cols[i].missing /\ r = n THEN Null
                  ELSE GenCell(cols[i].dtype, cols[i].u, r)]])

ClassifierInputs ==
    {GenFrame(n, cols) :
        n \in RowCounts,
        cols \in UNION {[1..k -> ColSpecs] : k \in 0..MaxCols}}

\* The idle values of the variables a specification does not use.
IdleStore ==
    /\ backend = "ok" /\ dbLoaded = FALSE /\ datasets = << >>
    /\ nextId = 1 /\ now = 0 /\ db_session = NoSession
IdleAuth ==
    /\ registered_users = << >> /\ is_authenticated = FALSE
    /\ username = None /\ user_id = NoId
IdleSession ==
    /\ data = NoData /\ filename = NoFileName /\ column_types = NoColumnTypes
    /\ page = "app" /\ selected_dataset_id = NoId
\* The call made by the last step, if it made one.
Call(op, id) == [op |-> op, id |-> id]
NoCall == Call("none", NoId)
IdleCall == lastOp = NoCall /\ ret = RetNone

ClassifyInit ==
    /\ IdleStore /\ IdleAuth /\ IdleSession /\ IdleCall
    /\ input \in ClassifierInputs
    /\ output = RetNone
    /\ pc = "input"

\* column_types = get_column_types(data)
Classify ==
    /\ pc = "input"
    /\ output' = get_column_types(input)
    /\ pc' = "classified"
    /\ UNCHANGED <<input, storeVars, authVars, sessionVars, lastOp, ret>>

ClassifyNext == Classify
SpecClassify == ClassifyInit /\ [][ClassifyNext]_vars

\* ------------------------------------------------ classifier: the claims
Occurrences(name, list) == Cardinality({j \in DOMAIN list : list[j] = name})

TimesListed(name, ct) ==
    Occurrences(name, ct.numeric) + Occurrences(name, ct.categorical)
    + Occurrences(name, ct.datetime) + Occurrences(name, ct.text)

KindListed(name, ct) ==
    IF Occurrences(name, ct.numeric) > 0 THEN "numeric"
    ELSE IF Occurrences(name, ct.datetime) > 0 THEN "datetime"
    ELSE IF Occurrences(name, ct.categorical) > 0 THEN "categorical"
    ELSE IF Occurrences(name, ct.text) > 0 THEN "text"
    ELSE "unlisted"

\* u and n of the classifier's rule 3, counted from the cells.
DistinctNonMissing(df, i) ==
    Cardinality({c \in Range(ColumnCells(df, i)) : c[1] # "null"})

\* C6: for every table the classifier gets, every column name appears in
\* exactly one of the four lists numeric, categorical, datetime, text: none is
\* left out, none is listed twice, and the lists hold nothing else.
C6_ExactlyOneType ==
    pc = "classified" =>
        /\ ~output.raised
        /\ \A i \in DOMAIN input.columns : TimesListed(input.columns[i], output) = 1
        /\ Len(output.numeric) + Len(output.categorical)
           + Len(output.datetime) + Len(output.text) = Len(input.columns)

C6_Witness ==
    /\ pc = "classified"
    /\ Len(input.columns) >= 2
    /\ Len(input.rows) > 0
    /\ Len(output.numeric) = 1
    /\ Len(output.text) = 1

\* C7 as stated: a column with fewer than 10 distinct values is classified
\* categorical whatever the table size.
C7_Original ==
    pc = "classified" =>
        \A i \in DOMAIN input.columns :
            DistinctNonMissing(input, i) < 10
                => KindListed(input.columns[i], output) = "categorical"

\* C7 amended: a column that is neither numeric nor datetime and has fewer
\* than 10 distinct non-missing values is classified categorical, whatever
\* the number of rows.
C7_NonNumericFewDistinct ==
    pc = "classified" =>
        \A i \in DOMAIN input.columns :
            (/\ input.dtypes[i] \notin {"int64", "float64", "bool", "datetime64"}
             /\ DistinctNonMissing(input, i) < 10)
                => KindListed(input.columns[i], output) = "categorical"

\* An object column of 5 rows and 5 distinct values (u/n = 1) is categorical.
C7_Witness ==
    /\ pc = "classified"
    /\ \E i \in DOMAIN input.columns :
          /\ input.dtypes[i] = "object"
          /\ DistinctNonMissing(input, i) \in 1..9
          /\ DistinctNonMissing(input, i) * 20 >= Len(input.rows)
          /\ KindListed(input.columns[i], output) = "categorical"

\* C8: the rules apply in order: a numeric column is numeric; else a
\* date/time column is datetime; else, with u distinct non-missing values and
\* n rows, the column is categorical iff u < 10 or u/n < 0.05, and text
\* otherwise.
C8_RulesInOrder ==
    pc = "classified" =>
        \A i \in DOMAIN input.columns :
            LET u == DistinctNonMissing(input, i)
                n == Len(input.rows)
                listed == KindListed(input.columns[i], output)
            IN  IF input.dtypes[i] \in {"int64", "float64", "bool"}
                THEN listed = "numeric"
                ELSE IF input.dtypes[i] = "datetime64"
                THEN listed = "datetime"
                ELSE /\ listed \in {"categorical", "text"}
                     /\ listed = "categorical" <=> (u < 10 \/ (n > 0 /\ 20 * u < n))

\* An object column with u >= 10 and u/n < 0.05 has been classified
\* categorical.
C8_Witness ==
    /\ pc = "classified"
    /\ \E i \in DOMAIN input.columns :
          /\ input.dtypes[i] = "object"
          /\ DistinctNonMissing(input, i) >= 10
          /\ 20 * DistinctNonMissing(input, i) < Len(input.rows)
          /\ KindListed(input.columns[i], output) = "categorical"

\* ------------------------------------------------------ upload: the harness
\* Uploaded files are generated from a row count and one kind per column:
\* numbers, text, numbers mixed with text, blanks, timestamps.
MaxFileCols == 4
FileRowCounts == {0, 3, 100}
RawKinds == {"number", "text", "mixed", "blank", "timestamp"}

RawCell(kind, c, r) ==
    CASE kind = "number" -> Num((r * c) % 7)
      [] kind = "text" -> Str(r % 3)
      [] kind = "mixed" -> IF r % 2 = 0 THEN Num(r) ELSE Str(0)
      [] kind = "timestamp" -> Ts(r)
      [] OTHER -> Null

GenFile(ext, parses, n, kinds) ==
    UploadedFile("data", ext, parses,
                 [i \in DOMAIN kinds |-> ColNames[i]],
                 [r \in 1..n |-> [i \in DOMAIN kinds |-> RawCell(kinds[i], i, r)]])

\* Every kind of column in the short files; the 100-row files are CSV files
\* of number and text columns; a CSV file holds no timestamps (read_csv does
\* not parse dates); of a file the parser rejects, only the name matters.
UploadInputs ==
    {GenFile("csv", TRUE, n, kinds) :
        n \in FileRowCounts \ {100},
        kinds \in UNION {[1..k -> RawKinds \ {"timestamp"}] : k \in 1..MaxFileCols}}
    \cup {GenFile("xlsx", TRUE, n, kinds) :
        n \in FileRowCounts \ {100},
        kinds \in UNION {[1..k -> RawKinds] : k \in 1..MaxFileCols}}
    \cup {GenFile("csv", TRUE, 100, kinds) :
        kinds \in UNION {[1..k -> {"number", "text"}] : k \in 1..MaxFileCols}}
    \cup {GenFile(ext, FALSE, 0, <<"blank">>) : ext \in {"csv", "xlsx"}}

UploadInit ==
    /\ IdleStore /\ IdleAuth /\ IdleSession /\ IdleCall
    /\ input \in UploadInputs
    /\ output = RetNone
    /\ pc = "input"

\* Mutant: the filename is assigned from the uploader before load_data has
\* returned.
ProcessUploadNameFirst(uploaded_file) ==
    /\ LET loaded == load_data(uploaded_file)
       IN  IF loaded.raised
           THEN /\ ret' = loaded
                /\ filename' = FileName(uploaded_file)
                /\ UNCHANGED <<data, column_types>>
           ELSE /\ data' = loaded.data
                /\ filename' = loaded.filename
                /\ column_types' = get_column_types(loaded.data)
                /\ ret' = RetOk
    /\ lastOp' = Call("upload", NoId)

\* app.py, the uploader's branch: load_data, then the session's table,
\* filename and column types are replaced; an exception leaves what had been
\* assigned before it.
ProcessUpload(uploaded_file) ==
    /\ LET loaded == load_data(uploaded_file)
       IN  IF loaded.raised
           THEN /\ ret' = loaded
                /\ UNCHANGED <<data, filename, column_types>>
           ELSE /\ data' = loaded.data
                /\ filename' = loaded.filename
                /\ column_types' = get_column_types(loaded.data)
                /\ ret' = RetOk
    /\ lastOp' = Call("upload", NoId)

UploadFile ==
    /\ pc = "input"
    /\ ProcessUpload(input)
    /\ pc' = IF load_data(input).raised THEN "failed" ELSE "loaded"
    /\ UNCHANGED <<input, output, storeVars, authVars, page, selected_dataset_id>>

\* app.py, the Statistics tab: the descriptive statistics of the session's
\* table, and the correlation matrix of its numeric columns.
ShowStatistics ==
    /\ pc = "loaded"
    /\ output' = [desc_stats |-> generate_descriptive_stats(data),
                  corr_matrix |-> generate_correlation_matrix(data, column_types.numeric)]
    /\ pc' = "shown"
    /\ UNCHANGED <<input, storeVars, authVars, sessionVars, lastOp, ret>>

UploadNext == UploadFile \/ ShowStatistics
SpecUpload == UploadInit /\ [][UploadNext]_vars

\* The scenario's file: a CSV of 100 rows with 3 columns of numbers and 1
\* column of text (3 distinct values).
IsScenarioFile(f) ==
    /\ f.ext = "csv" /\ f.parses
    /\ Len(f.rows) = 100
    /\ Len(f.columns) = 4
    /\ Cardinality({i \in 1..4 : \A r \in 1..100 : f.rows[r][i][1] = "num"}) = 3
    /\ Cardinality({i \in 1..4 : \A r \in 1..100 : f.rows[r][i][1] = "str"}) = 1

IsSymmetric(m) ==
    \A a \in Range(m.index), b \in Range(m.columns) : m.cell[a, b] = m.cell[b, a]

\* C5: uploading a 100-row CSV with 3 numeric columns and 1 text column,
\* then classifying, reports 3 numeric columns and 1 categorical column; the
\* descriptive statistics have 4 rows and the correlation matrix is 3x3 and
\* symmetric.
C5_Scenario ==
    (pc = "shown" /\ IsScenarioFile(input)) =>
        /\ Len(column_types.numeric) = 3
        /\ Len(column_types.categorical) = 1
        /\ ~output.desc_stats.raised
        /\ Len(output.desc_stats.index) = 4
        /\ output.corr_matrix.kind = "matrix"
        /\ Len(output.corr_matrix.index) = 3
        /\ Len(output.corr_matrix.columns) = 3
        /\ IsSymmetric(output.corr_matrix)

\* The scenario has been run to the end.
C5_Reached == pc = "shown" /\ IsScenarioFile(input)

\* C17: with fewer than 2 numeric columns the correlation-matrix operation
\* returns one informational row and raises nothing; with 2 or more it
\* returns a square matrix with one row and one column per numeric column.
C17_CorrelationShape ==
    pc = "shown" =>
        LET m == output.corr_matrix
            numeric == column_types.numeric
        IN  IF Len(numeric) < 2
            THEN /\ m.kind = "message"
                 /\ Len(m.index) = 1
                 /\ m.columns = <<"message">>
            ELSE /\ m.kind = "matrix"
                 /\ m.index = numeric
                 /\ m.columns = numeric
                 /\ DOMAIN m.cell = Range(numeric) \X Range(numeric)

\* The correlation matrix of a table with exactly two numeric columns, one
\* of them a timestamp-free numeric column next to a third, non-numeric
\* column, has been shown.
C17_Witness ==
    /\ pc = "shown"
    /\ Len(column_types.numeric) = 2
    /\ Len(data.columns) = 3
    /\ output.corr_matrix.kind = "matrix"

\* --------------------------------------------- grouped statistics: harness
MaxGroupRows == 3
GroupKeys == {Str(0), Str(1), Null}
GroupCells == {Num(-1), Num(0), Num(1), Num(3), Null}

GroupInputs ==
    {Frame(<<"g", "x">>, <<"object", "float64">>, rows) :
        rows \in UNION {[1..n -> {<<g, x>> : g \in GroupKeys, x \in GroupCells}] :
                          n \in 0..MaxGroupRows}}

GroupInit ==
    /\ IdleStore /\ IdleAuth /\ IdleSession /\ IdleCall
    /\ input \in GroupInputs
    /\ output = RetNone
    /\ pc = "input"

GroupStatistics ==
    /\ pc = "input"
    /\ output' = calculate_statistics_by_group(input, "x", "g")
    /\ pc' = "grouped"
    /\ UNCHANGED <<input, storeVars, authVars, sessionVars, lastOp, ret>>

GroupNext == GroupStatistics
SpecGroup == GroupInit /\ [][GroupNext]_vars

\* C9: in grouped statistics a group whose mean is exactly zero gets the
\* explicit "undefined" marker as its coefficient of variation, and no CV is
\* infinite or NaN.
C9_ZeroMeanMarked ==
    pc = "grouped" =>
        \A k \in DOMAIN output :
            /\ (output[k].count > 0 /\ output[k].sum = 0)
                  => output[k].cv.kind = "undefined"
            /\ output[k].cv.kind \notin {"inf", "nan"}

\* A group of at least two values with mean zero has been summarised.
C9_Reached ==
    /\ pc = "grouped"
    /\ \E k \in DOMAIN output :
          output[k].count >= 2 /\ output[k].sum = 0 /\ output[k].varnum > 0

\* ------------------------------------------------------- utils/database.py
\* dataframe.to_json(orient="records", date_format="iso"): one object per
\* row, its keys the column labels in column order; a timestamp is written as
\* its ISO text, a missing value as null. Duplicate labels raise.
JsonValue(cell) == IF cell[1] = "ts" THEN IsoStr(cell[2]) ELSE cell

to_json(df) ==
    IF Cardinality(Range(df.columns)) # Len(df.columns)
    THEN Raised("ValueError: DataFrame columns must be unique for orient='records'")
    ELSE [kind |-> "json", raised |-> FALSE,
          records |-> [r \in DOMAIN df.rows |->
                          [i \in DOMAIN df.columns |->
                              <<df.columns[i], JsonValue(df.rows[r][i])>>]]]

\* pd.read_json(text, orient="records"): the columns are the keys of the
\* objects read, so no object means no column; each column's dtype is
\* inferred from its values.
read_json(records) ==
    IF records = <<>> THEN Frame(<<>>, <<>>, <<>>)
    ELSE LET rows == [r \in DOMAIN records |->
                         [i \in DOMAIN records[r] |-> records[r][i][2]]]
             keys == [i \in DOMAIN records[1] |-> records[1][i][1]]
         IN  Frame(keys, [i \in DOMAIN keys |-> InferDtype(rows, i)], rows)

\* json.dumps / json.loads of the column type map: a dict of lists of labels.
json_dumps(ct) == <<"json", ct>>
json_loads(text) == text[2]

\* What a store call does: the value returned and the table afterwards.
\* A call that returns after its db.close().
Outcome(value, table, id) ==
    [ret |-> value, datasets |-> table, nextId |-> id, session |-> SessionClosed]
Failed(value) == Outcome(value, datasets, nextId)
\* A call whose try block raised: before SessionLocal(), or between
\* SessionLocal() and db.close(). The except clause returns `value` and has
\* no db.close().
RaisedBeforeSession(value) == [Failed(value) EXCEPT !.session = NoSession]
RaisedInSession(value) == [Failed(value) EXCEPT !.session = SessionOpen]

Without(table, id) == [k \in DOMAIN table \ {id} |-> table[k]]

save_dataset(name, description, fname, dataframe, ctypes) ==
    LET data_json == to_json(dataframe)
    IN  IF data_json.raised THEN RaisedBeforeSession(RetNone)
        ELSE IF backend # "ok" THEN RaisedInSession(RetNone)
        ELSE LET new_dataset ==
                     [id |-> nextId, name |-> name, description |-> description,
                      filename |-> fname, created_at |-> now, updated_at |-> now,
                      data |-> data_json.records,
                      column_types |-> json_dumps(ctypes)]
             IN  Outcome(RetId(nextId), datasets @@ (nextId :> new_dataset), nextId + 1)

Summary(dataset) ==
    [id |-> dataset.id, name |-> dataset.name, description |-> dataset.description,
     filename |-> dataset.filename, created_at |-> dataset.created_at,
     updated_at |-> dataset.updated_at]

\* db.query(Dataset).all() states no order: `order` is the order the backend
\* returns the rows in.
get_all_datasets(order) ==
    IF backend # "ok" THEN RaisedInSession([kind |-> "list", list |-> <<>>])
    ELSE Failed([kind |-> "list",
                 list |-> [k \in DOMAIN order |-> Summary(datasets[order[k]])]])

get_dataset(dataset_id) ==
    IF backend # "ok" THEN RaisedInSession(RetNone)
    ELSE IF dataset_id \notin DOMAIN datasets THEN Failed(RetNone)
    ELSE LET dataset == datasets[dataset_id]
         IN  Failed([kind |-> "dataset",
                     id |-> dataset.id, name |-> dataset.name,
                     description |-> dataset.description,
                     filename |-> dataset.filename,
                     created_at |-> dataset.created_at,
                     updated_at |-> dataset.updated_at,
                     dataframe |-> read_json(dataset.data),
                     column_types |-> json_loads(dataset.column_types)])

\* Mutant: the row is looked up by position, so an id that is not stored
\* deletes the last row.
delete_dataset_last(dataset_id) ==
    IF backend # "ok" \/ DOMAIN datasets = {} THEN Failed(RetBool(FALSE))
    ELSE LET target == IF dataset_id \in DOMAIN datasets THEN dataset_id
                       ELSE CHOOSE k \in DOMAIN datasets :
                                \A other \in DOMAIN datasets : other <= k
         IN  Outcome(RetBool(TRUE), Without(datasets, target), nextId)

\* Mutant: the delete is never committed; the call still returns True.
delete_dataset_uncommitted(dataset_id) ==
    IF backend # "ok" THEN RaisedInSession(RetBool(FALSE))
    ELSE IF dataset_id \notin DOMAIN datasets THEN Failed(RetBool(FALSE))
    ELSE Failed(RetBool(TRUE))

delete_dataset(dataset_id) ==
    IF backend # "ok" THEN RaisedInSession(RetBool(FALSE))
    ELSE IF dataset_id \notin DOMAIN datasets THEN Failed(RetBool(FALSE))
    ELSE Outcome(RetBool(TRUE), Without(datasets, dataset_id), nextId)

\* Mutant: the update also writes the column type map back, emptied.
update_dataset_rewriting(dataset_id, name, description) ==
    IF backend # "ok" \/ dataset_id \notin DOMAIN datasets THEN Failed(RetBool(FALSE))
    ELSE LET dataset == datasets[dataset_id]
             updated == [dataset EXCEPT
                            !.name = IF name \notin {None, ""} THEN name ELSE @,
                            !.description =
                                IF description \notin {None, ""} THEN description ELSE @,
                            !.column_types = json_dumps(NoColumnTypes),
                            !.updated_at = now]
         IN  Outcome(RetBool(TRUE), [datasets EXCEPT ![dataset_id] = updated], nextId)

\* `if name:` and `if description:` skip None and the empty text.
update_dataset(dataset_id, name, description) ==
    IF backend # "ok" THEN RaisedInSession(RetBool(FALSE))
    ELSE IF dataset_id \notin DOMAIN datasets THEN Failed(RetBool(FALSE))
    ELSE LET dataset == datasets[dataset_id]
             updated == [dataset EXCEPT
                            !.name = IF name \notin {None, ""} THEN name ELSE @,
                            !.description =
                                IF description \notin {None, ""} THEN description ELSE @,
                            !.updated_at = now]
         IN  Outcome(RetBool(TRUE), [datasets EXCEPT ![dataset_id] = updated], nextId)

\* Lines 13-33, run when utils.database is first imported: create_engine
\* raises on a missing DATABASE_URL, create_all raises when the database
\* cannot be reached. Neither is inside a try.
ImportDatabaseOutcome ==
    IF backend = "unconfigured" THEN Raised("ArgumentError")
    ELSE IF backend = "down" THEN Raised("OperationalError")
    ELSE RetOk

\* ------------------------------------------------- dataset store: harness
\* The store is called as its callers call it, with every id up to one past
\* the last id the sequence can give out.
MaxSaves == 1
MaxClock == 1
SaveNames == {"n1"}
SaveDescriptions == {""}
UpdateNames == {None, "n2"}
UpdateDescriptions == {"", "d2"}

Apply(op, id, o) ==
    /\ lastOp' = Call(op, id)
    /\ ret' = o.ret
    /\ datasets' = o.datasets
    /\ nextId' = o.nextId
    /\ db_session' = o.session

\* The first script run imports utils.database (app.py:11,
\* saved_datasets.py:3); an exception ends the run and the next run imports
\* again.
ImportDatabase ==
    /\ ~dbLoaded
    /\ ret' = ImportDatabaseOutcome
    /\ dbLoaded' = ~ImportDatabaseOutcome.raised
    /\ lastOp' = Call("import", NoId)
    /\ UNCHANGED <<backend, datasets, nextId, db_session, now, authVars, sessionVars, harnessVars>>

\* The environment: the database becomes unreachable, or reachable again,
\* and time passes.
BackendFails ==
    /\ backend = "ok"
    /\ backend' = "down"
    /\ lastOp' = NoCall
    /\ UNCHANGED <<dbLoaded, datasets, nextId, db_session, now, ret, authVars, sessionVars, harnessVars>>

BackendRecovers ==
    /\ backend = "down"
    /\ backend' = "ok"
    /\ lastOp' = NoCall
    /\ UNCHANGED <<dbLoaded, datasets, nextId, db_session, now, ret, authVars, sessionVars, harnessVars>>

Tick ==
    /\ now < MaxClock
    /\ now' = now + 1
    /\ lastOp' = NoCall
    /\ UNCHANGED <<backend, dbLoaded, datasets, nextId, db_session, ret, authVars, sessionVars, harnessVars>>

StoreFrame == <<backend, dbLoaded, now, authVars, sessionVars, harnessVars>>

CallSave ==
    /\ dbLoaded
    /\ nextId <= MaxSaves
    /\ \E name \in SaveNames, description \in SaveDescriptions :
          Apply("save", nextId,
                save_dataset(name, description, <<"data", "csv">>, input,
                             get_column_types(input)))
    /\ UNCHANGED StoreFrame

Orders(ids) ==
    {order \in [1..Cardinality(ids) -> ids] :
        \A j, k \in DOMAIN order : j # k => order[j] # order[k]}

CallGetAll ==
    /\ dbLoaded
    /\ \E order \in Orders(DOMAIN datasets) :
          Apply("list", NoId, get_all_datasets(order))
    /\ UNCHANGED StoreFrame

CallGet(id) ==
    /\ dbLoaded
    /\ Apply("get", id, get_dataset(id))
    /\ UNCHANGED StoreFrame

CallDelete(id) ==
    /\ dbLoaded
    /\ Apply("delete", id, delete_dataset(id))
    /\ UNCHANGED StoreFrame

CallUpdate(id) ==
    /\ dbLoaded
    /\ \E name \in UpdateNames, description \in UpdateDescriptions :
          Apply("update", id, update_dataset(id, name, description))
    /\ UNCHANGED StoreFrame

StoreTables ==
    {Frame(<<"a", "b">>, <<"float64", "object">>, <<<<Num(1), Str(0)>>>>),
     Frame(<<"a">>, <<"datetime64">>, <<<<Ts(1)>>, <<Null>>>>)}

StoreInit ==
    /\ backend \in {"ok", "down", "unconfigured"}
    /\ dbLoaded = FALSE /\ datasets = << >> /\ nextId = 1 /\ now = 0 /\ db_session = NoSession
    /\ IdleAuth /\ IdleSession /\ IdleCall
    /\ input \in StoreTables
    /\ output = RetNone
    /\ pc = "store"

StoreNext ==
    \/ ImportDatabase
    \/ BackendFails
    \/ BackendRecovers
    \/ Tick
    \/ CallSave
    \/ CallGetAll
    \/ \E id \in 1..(MaxSaves + 1) : CallGet(id) \/ CallDelete(id) \/ CallUpdate(id)

SpecStore == StoreInit /\ [][StoreNext]_vars

\* C10: a Delete of an id that is not in the store returns false, raises
\* nothing, and leaves every stored record as it was.
C10_DeleteMissing ==
    [][(lastOp'.op = "delete" /\ lastOp'.id \notin DOMAIN datasets)
          => /\ ret'.kind = "bool"
             /\ ret'.value = FALSE
             /\ datasets' = datasets]_vars

\* With the database reachable and a record stored, a Delete of another id
\* has returned false.
C10_Witness ==
    /\ lastOp.op = "delete"
    /\ backend = "ok"
    /\ DOMAIN datasets # {}
    /\ lastOp.id \notin DOMAIN datasets
    /\ ret.kind = "bool" /\ ret.value = FALSE

\* C4: no use of the Dataset Store raises into its caller, whatever the
\* backend's state is, the first use (which loads the module) included:
\* every call ends in a returned value.
C4_NeverRaises == ret.kind # "raised"

\* The store's module has been loaded with the backend unconfigured or
\* unreachable.
C4_Reached == lastOp.op = "import" /\ backend # "ok"

\* The fields of a stored record that UpdateMetadata may not change.
Contents(dataset) ==
    [id |-> dataset.id, filename |-> dataset.filename,
     created_at |-> dataset.created_at, data |-> dataset.data,
     column_types |-> dataset.column_types]

\* C11: no operation changes the serialized table or the serialized column
\* type map of a record that stays stored, and an UpdateMetadata changes, in
\* the record it names, only name, description and the last-updated
\* timestamp, and nothing in any other record.
C11_ContentsImmutable ==
    [][/\ \A id \in DOMAIN datasets \cap DOMAIN datasets' :
             /\ datasets'[id].data = datasets[id].data
             /\ datasets'[id].column_types = datasets[id].column_types
       /\ lastOp'.op = "update" =>
             /\ DOMAIN datasets' = DOMAIN datasets
             /\ \A id \in DOMAIN datasets :
                   /\ Contents(datasets'[id]) = Contents(datasets[id])
                   /\ id # lastOp'.id => datasets'[id] = datasets[id]]_vars

\* An UpdateMetadata has renamed a stored record at a later time than its
\* creation.
C11_Witness ==
    /\ lastOp.op = "update" /\ ret.kind = "bool" /\ ret.value
    /\ lastOp.id \in DOMAIN datasets
    /\ datasets[lastOp.id].name = "n2"
    /\ datasets[lastOp.id].description = "d2"
    /\ datasets[lastOp.id].updated_at > datasets[lastOp.id].created_at

\* --------------------------------------------------- round trip: harness
\* Save then Get, for every table of at most MaxTableCols columns and
\* MaxTableRows rows over a few cells of each dtype.
MaxTableCols == 2
MaxTableRows == 2
\* A column of the table saved: its dtype and which of its rows are missing
\* (a bool column has no missing value).
TableColSpecs ==
    {<<dtype, missing>> \in Dtypes \X {"none", "first", "all"} :
        dtype = "bool" => missing = "none"}

CellOf(spec, r) ==
    IF spec[2] = "all" \/ (spec[2] = "first" /\ r = 1) THEN Null
    ELSE CASE spec[1] = "float64" -> Num(r)
           [] spec[1] = "object" -> Str(r)
           [] spec[1] = "datetime64" -> Ts(r)
           [] OTHER -> Bool(r % 2)

RoundTripTables ==
    {Frame([i \in DOMAIN cols |-> ColNames[i]],
           [i \in DOMAIN cols |-> cols[i][1]],
           [r \in 1..n |-> [i \in DOMAIN cols |-> CellOf(cols[i], r)]]) :
        n \in 0..MaxTableRows,
        cols \in UNION {[1..k -> TableColSpecs] : k \in 0..MaxTableCols}}

RoundTripInit ==
    /\ backend = "ok"
    /\ dbLoaded = FALSE /\ datasets = << >> /\ nextId = 1 /\ now = 0 /\ db_session = NoSession
    /\ IdleAuth /\ IdleSession /\ IdleCall
    /\ input \in RoundTripTables
    /\ output = RetNone
    /\ pc = "store"

RoundTripNext ==
    \/ ImportDatabase
    \/ CallSave
    \/ \E id \in 1..(MaxSaves + 1) : CallGet(id)

SpecRoundTrip == RoundTripInit /\ [][RoundTripNext]_vars

\* Equal up to the serialization: a timestamp may come back as its ISO text.
SameCell(got, saved) ==
    \/ got = saved
    \/ saved[1] = "ts" /\ got = <<"iso", saved[2]>>

SameTable(got, saved) ==
    /\ Len(got.rows) = Len(saved.rows)
    /\ Len(got.columns) = Len(saved.columns)
    /\ got.columns = saved.columns
    /\ \A r \in DOMAIN saved.rows : \A i \in DOMAIN saved.columns :
          SameCell(got.rows[r][i], saved.rows[r][i])

\* C1: for every table, one with zero rows included, Save followed by Get of
\* the returned id yields a table of the same shape, the same column order
\* and the same values (a timestamp as its ISO text) as the table saved.
C1_RoundTrip ==
    (lastOp.op = "get" /\ ret.kind = "dataset") => SameTable(ret.dataframe, input)

\* A table with columns and no rows has been saved and read back.
C1_Reached ==
    /\ lastOp.op = "get" /\ ret.kind = "dataset"
    /\ Len(input.rows) = 0 /\ Len(input.columns) > 0

\* What holds: the round trip of every table that has at least one row.
C1_RoundTripNonEmpty ==
    (lastOp.op = "get" /\ ret.kind = "dataset" /\ Len(input.rows) > 0)
        => SameTable(ret.dataframe, input)

\* ----------------------------------------------------------- utils/auth.py
\* hashlib.sha256((password + salt).encode()).hexdigest(): the digest is
\* determined by the password and the salt (collisions are not modelled).
hash_password(password, salt) == <<"sha256", password \o salt>>

verify_password(password, salt, password_hash) ==
    hash_password(password, salt) = password_hash

AuthResult(ok, message) == [kind |-> "auth", ok |-> ok, message |-> message]

\* What an auth call does: the result returned, the credential store and the
\* session identity afterwards.
AuthOutcome(result, users, authenticated, name, id) ==
    [ret |-> result, registered_users |-> users,
     is_authenticated |-> authenticated, username |-> name, user_id |-> id]

\* Mutant: no test for a stored username; the record is written again.
register_user_overwriting(name, password, email, salt) ==
    LET record == [salt |-> salt,
                   password_hash |-> hash_password(password, salt),
                   email |-> email,
                   user_id |-> Cardinality(DOMAIN registered_users) + 1]
    IN  AuthOutcome(AuthResult(TRUE, "Registration successful"),
                    [n \in DOMAIN registered_users \cup {name} |->
                        IF n = name THEN record ELSE registered_users[n]],
                    is_authenticated, username, user_id)

\* Mutant: the new user_id is the number of accounts, without the + 1.
register_user_len(name, password, email, salt) ==
    IF name \in DOMAIN registered_users
    THEN AuthOutcome(AuthResult(FALSE, "Username already exists"),
                     registered_users, is_authenticated, username, user_id)
    ELSE AuthOutcome(AuthResult(TRUE, "Registration successful"),
                     registered_users @@
                        (name :> [salt |-> salt,
                                  password_hash |-> hash_password(password, salt),
                                  email |-> email,
                                  user_id |-> Cardinality(DOMAIN registered_users)]),
                     is_authenticated, username, user_id)

\* `salt` is the value generate_salt() draws.
register_user(name, password, email, salt) ==
    IF name \in DOMAIN registered_users
    THEN AuthOutcome(AuthResult(FALSE, "Username already exists"),
                     registered_users, is_authenticated, username, user_id)
    ELSE AuthOutcome(AuthResult(TRUE, "Registration successful"),
                     registered_users @@
                        (name :> [salt |-> salt,
                                  password_hash |-> hash_password(password, salt),
                                  email |-> email,
                                  user_id |-> Cardinality(DOMAIN registered_users) + 1]),
                     is_authenticated, username, user_id)

create_default_user(users, salt) ==
    IF "demo" \in DOMAIN users THEN users
    ELSE users @@ ("demo" :> [salt |-> salt,
                             password_hash |-> hash_password("demo", salt),
                             email |-> "demo@example.com",
                             user_id |-> 1])

\* Mutant: the session's username is assigned before the password is
\* verified.
login_user_early(users, name, password, salt) ==
    LET stored == IF DOMAIN users = {} THEN create_default_user(users, salt) ELSE users
    IN  IF name \notin DOMAIN stored
        THEN AuthOutcome(AuthResult(FALSE, "Invalid username or password"),
                         stored, is_authenticated, username, user_id)
        ELSE IF verify_password(password, stored[name].salt, stored[name].password_hash)
        THEN AuthOutcome(AuthResult(TRUE, "Login successful"),
                         stored, TRUE, name, stored[name].user_id)
        ELSE AuthOutcome(AuthResult(FALSE, "Invalid username or password"),
                         stored, is_authenticated, name, user_id)

\* Mutant: the stored hash is not compared.
login_user_unverified(users, name, password, salt) ==
    LET stored == IF DOMAIN users = {} THEN create_default_user(users, salt) ELSE users
    IN  IF name \notin DOMAIN stored
        THEN AuthOutcome(AuthResult(FALSE, "Invalid username or password"),
                         stored, is_authenticated, username, user_id)
        ELSE AuthOutcome(AuthResult(TRUE, "Login successful"),
                         stored, TRUE, name, stored[name].user_id)

\* Mutant: create_default_user is called on every login.
login_user_always_default(users, name, password, salt) ==
    LET stored == create_default_user(users, salt)
    IN  IF name \notin DOMAIN stored
        THEN AuthOutcome(AuthResult(FALSE, "Invalid username or password"),
                         stored, is_authenticated, username, user_id)
        ELSE IF verify_password(password, stored[name].salt, stored[name].password_hash)
        THEN AuthOutcome(AuthResult(TRUE, "Login successful"),
                         stored, TRUE, name, stored[name].user_id)
        ELSE AuthOutcome(AuthResult(FALSE, "Invalid username or password"),
                         stored, is_authenticated, username, user_id)

\* login_user against the credential store `users`; `salt` is the value
\* generate_salt() draws if the default user is created.
login_user(users, name, password, salt) ==
    LET stored == IF DOMAIN users = {} THEN create_default_user(users, salt) ELSE users
    IN  IF name \notin DOMAIN stored
        THEN AuthOutcome(AuthResult(FALSE, "Invalid username or password"),
                         stored, is_authenticated, username, user_id)
        ELSE IF verify_password(password, stored[name].salt, stored[name].password_hash)
        THEN AuthOutcome(AuthResult(TRUE, "Login successful"),
                         stored, TRUE, name, stored[name].user_id)
        ELSE AuthOutcome(AuthResult(FALSE, "Invalid username or password"),
                         stored, is_authenticated, username, user_id)

logout_user ==
    AuthOutcome(RetNone, registered_users, FALSE, None, NoId)

\* ------------------------------------------------ auth_sidebar: the actions
Usernames == {"demo", "alice"}
Passwords == {"demo", "pw"}
Emails == {"a@example.com"}
Salts == {"s1", "s2"}

ApplyAuth(op, o) ==
    /\ lastOp' = Call(op, NoId)
    /\ ret' = o.ret
    /\ registered_users' = o.registered_users
    /\ is_authenticated' = o.is_authenticated
    /\ username' = o.username
    /\ user_id' = o.user_id

AuthFrame == <<storeVars, sessionVars, harnessVars>>

\* The "Log In" button, shown while the session is not authenticated.
ClickLogin ==
    /\ dbLoaded
    /\ page = "app"
    /\ ~is_authenticated
    /\ \E name \in Usernames \cup {""}, password \in Passwords \cup {""}, salt \in Salts :
          IF name # "" /\ password # ""
          THEN ApplyAuth("login", login_user(registered_users, name, password, salt))
          ELSE /\ lastOp' = Call("login", NoId)
               /\ ret' = [kind |-> "warning",
                          message |-> "Please enter username and password"]
               /\ UNCHANGED authVars
    /\ UNCHANGED AuthFrame

\* The "Register" button: the two passwords are compared, register_user is
\* called, and a successful registration logs the user in.
ClickRegister ==
    /\ dbLoaded
    /\ page = "app"
    /\ ~is_authenticated
    /\ \E name \in Usernames \cup {""}, password \in Passwords \cup {""},
          confirm_password \in Passwords, email \in Emails, salt \in Salts :
          IF name = "" \/ password = ""
          THEN /\ lastOp' = Call("register", NoId)
               /\ ret' = [kind |-> "warning",
                          message |-> "Please enter username and password"]
               /\ UNCHANGED authVars
          ELSE IF password # confirm_password
          THEN /\ lastOp' = Call("register", NoId)
               /\ ret' = AuthResult(FALSE, "Passwords do not match")
               /\ UNCHANGED authVars
          ELSE LET registered == register_user(name, password, email, salt)
               IN  IF registered.ret.ok
                   THEN ApplyAuth("register",
                                  [login_user(registered.registered_users,
                                              name, password, salt)
                                      EXCEPT !.ret = registered.ret])
                   ELSE ApplyAuth("register", registered)
    /\ UNCHANGED AuthFrame

\* The "Log Out" button, shown while the session is authenticated.
ClickLogout ==
    /\ dbLoaded
    /\ page = "app"
    /\ is_authenticated
    /\ ApplyAuth("logout", logout_user)
    /\ UNCHANGED AuthFrame

\* The session after the first run of app.py: the database module is
\* imported and init_auth_state has run.
AuthInit ==
    /\ backend = "ok" /\ dbLoaded = TRUE /\ datasets = << >>
    /\ nextId = 1 /\ now = 0 /\ db_session = NoSession
    /\ IdleAuth /\ IdleSession /\ IdleCall
    /\ input = NoData /\ output = RetNone /\ pc = "ui"

AuthNext == ClickLogin \/ ClickRegister \/ ClickLogout
SpecAuth == AuthInit /\ [][AuthNext]_vars

Rejected(result) == result.kind = "auth" /\ ~result.ok

\* C3 as stated: a rejected login or registration changes neither the
\* credential store nor the session identity, from every reachable state,
\* the state with an empty credential store included.
C3_Original ==
    [][(lastOp'.op \in {"login", "register"} /\ Rejected(ret'))
          => UNCHANGED <<registered_users, is_authenticated, username, user_id>>]_vars

\* C3 amended: a rejected login or registration leaves the session identity
\* as it was, and leaves the credential store as it was except that a login
\* attempted on an empty credential store has added the default account.
C3_RejectedNoPartialChange ==
    [][(lastOp'.op \in {"login", "register"} /\ Rejected(ret'))
          => /\ UNCHANGED <<is_authenticated, username, user_id>>
             /\ \/ registered_users' = registered_users
                \/ /\ lastOp'.op = "login"
                   /\ DOMAIN registered_users = {}
                   /\ DOMAIN registered_users' = {"demo"}
                   /\ registered_users'["demo"].user_id = 1
                   /\ registered_users'["demo"].email = "demo@example.com"
                   /\ verify_password("demo", registered_users'["demo"].salt,
                                      registered_users'["demo"].password_hash)]_vars

\* A login has been rejected for a wrong password of a stored account, and a
\* registration for a taken username is possible next.
C3_Witness ==
    /\ lastOp.op = "login"
    /\ Rejected(ret)
    /\ Cardinality(DOMAIN registered_users) = 2
    /\ ~is_authenticated

\* C14: a registration under a stored username fails with a message and
\* leaves the store as it was; no registration changes the record of a
\* stored username, and a successful one adds one username that was not
\* stored.
C14_DuplicateRejected ==
    [][lastOp'.op = "register" =>
         /\ \A name \in DOMAIN registered_users :
               /\ name \in DOMAIN registered_users'
               /\ registered_users'[name] = registered_users[name]
         /\ \A name \in Usernames, password \in Passwords,
                email \in Emails, salt \in Salts :
               (name \in DOMAIN registered_users) =>
                  (/\ register_user(name, password, email, salt).ret
                         = AuthResult(FALSE, "Username already exists")
                   /\ register_user(name, password, email, salt).registered_users
                         = registered_users)
         /\ (ret'.kind = "auth" /\ ret'.ok) =>
               (\E name \in Usernames \ DOMAIN registered_users :
                   DOMAIN registered_users' = DOMAIN registered_users \cup {name})]_vars

\* A registration under a stored username has been rejected.
C14_Witness ==
    /\ lastOp.op = "register"
    /\ ret = AuthResult(FALSE, "Username already exists")
    /\ DOMAIN registered_users # {}

\* The account a login under `name` is checked against: the store as
\* login_user reads it.
StoreAtLogin(salt) ==
    IF DOMAIN registered_users = {} THEN create_default_user(registered_users, salt)
    ELSE registered_users

\* The session's identity is that of a stored account or unset, and
\* login_user succeeds exactly for a stored account whose salted hash
\* matches the supplied password, taking that account's identity.
IdentityOfStoredAccount ==
    /\ is_authenticated =>
          (/\ username \in DOMAIN registered_users
           /\ user_id = registered_users[username].user_id)
    /\ ~is_authenticated => (username = None /\ user_id = NoId)
    /\ \A name \in Usernames, password \in Passwords, salt \in Salts :
          LET o == login_user(registered_users, name, password, salt)
              stored == StoreAtLogin(salt)
              matches == /\ name \in DOMAIN stored
                         /\ stored[name].password_hash
                               = hash_password(password, stored[name].salt)
          IN  /\ o.ret.ok <=> matches
              /\ o.ret.ok => (/\ o.is_authenticated
                               /\ o.username = name
                               /\ o.user_id = stored[name].user_id)

\* C15: the session is authenticated exactly from a successful login to the
\* next logout; a login succeeds only for a stored account whose salted hash
\* matches the supplied password, and sets username and user_id to that
\* account's; while not authenticated, username and user_id are unset.
C15_SessionIdentity ==
    /\ []IdentityOfStoredAccount
    /\ [][is_authenticated' =
              IF lastOp'.op \in {"login", "register"} /\ ret'.kind = "auth" /\ ret'.ok
              THEN TRUE
              ELSE IF lastOp'.op = "logout" THEN FALSE
              ELSE is_authenticated]_vars

\* A second account is logged in after a logout of the first.
C15_Witness ==
    /\ lastOp.op = "login" /\ ret.kind = "auth" /\ ret.ok
    /\ is_authenticated
    /\ username = "alice"
    /\ user_id = 2

DefaultAccount(record) ==
    /\ record.user_id = 1
    /\ record.email = "demo@example.com"
    /\ verify_password("demo", record.salt, record.password_hash)

HasDefaultAccount(users) ==
    "demo" \in DOMAIN users /\ DefaultAccount(users["demo"])

NoFile ==
    [stem |-> None, ext |-> None, parses |-> FALSE,
     columns |-> <<>>, rows |-> <<>>, none |-> TRUE]

UiFiles ==
    {GenFile("csv", TRUE, 3, <<"number", "text">>),
     GenFile("xlsx", TRUE, 3, <<"timestamp">>),
     GenFile("csv", FALSE, 0, <<"blank">>),
     GenFile("CSV", TRUE, 3, <<"number">>)}

UiFrame == <<backend, dbLoaded, now, authVars, output, pc>>

\* A file is dropped on the uploader of the main page.
UploadNew ==
    /\ dbLoaded
    /\ page = "app"
    /\ \E f \in UiFiles :
          /\ input' = f
          /\ ProcessUpload(f)
    /\ UNCHANGED <<storeVars, authVars, page, selected_dataset_id, output, pc>>

\* "Save Dataset to Database", drawn after a successful load while the
\* session is authenticated: the name is the filename without its
\* extension, the description is the new text area's empty text.
ClickSaveUploaded ==
    /\ dbLoaded
    /\ page = "app"
    /\ ~input.none
    /\ ~load_data(input).raised
    /\ is_authenticated
    /\ nextId <= MaxSaves
    /\ Apply("save", nextId,
             save_dataset(filename[1], "", filename, data, column_types))
    /\ UNCHANGED <<UiFrame, sessionVars, input>>

\* "Go to Saved Datasets": the page's script runs from its first line and
\* lists the stored datasets. The uploader is not drawn there, so its file
\* is gone when the main page is drawn again.
GoToSavedDatasets ==
    /\ dbLoaded
    /\ page = "app"
    /\ page' = "saved"
    /\ input' = NoFile
    /\ \E order \in Orders(DOMAIN datasets) :
          Apply("list", NoId, get_all_datasets(order))
    /\ UNCHANGED <<UiFrame, data, filename, column_types, selected_dataset_id>>

\* The buttons of a listed dataset are drawn when get_all_datasets returned
\* it in the run of the click.
Listed(id) == backend = "ok" /\ id \in DOMAIN datasets

\* "View": the dataset is selected and its details are drawn.
ClickView(id) ==
    /\ dbLoaded
    /\ page = "saved"
    /\ Listed(id)
    /\ selected_dataset_id' = id
    /\ Apply("view", id, get_dataset(id))
    /\ UNCHANGED <<UiFrame, data, filename, column_types, page, input>>

\* "Delete".
ClickDelete(id) ==
    /\ dbLoaded
    /\ page = "saved"
    /\ Listed(id)
    /\ Apply("delete", id, delete_dataset(id))
    /\ UNCHANGED <<UiFrame, sessionVars, input>>

\* "Load for Analysis", drawn under the details of the selected dataset:
\* load_dataset_to_main, then the main page.
ClickLoadForAnalysis ==
    /\ dbLoaded
    /\ page = "saved"
    /\ Listed(selected_dataset_id)
    /\ LET dataset == get_dataset(selected_dataset_id).ret
       IN  /\ data' = dataset.dataframe
           /\ filename' = dataset.filename
           /\ column_types' = dataset.column_types
           /\ ret' = RetOk
    /\ lastOp' = Call("load", selected_dataset_id)
    /\ page' = "app"
    /\ UNCHANGED <<UiFrame, datasets, nextId, db_session, selected_dataset_id, input>>

\* "Back to Dataset List".
ClickBack ==
    /\ dbLoaded
    /\ page = "saved"
    /\ Listed(selected_dataset_id)
    /\ selected_dataset_id' = NoId
    /\ lastOp' = NoCall
    /\ UNCHANGED <<UiFrame, datasets, nextId, db_session, data, filename, column_types,
                   page, input, ret>>

\* "Go to Main Page", drawn when get_all_datasets returned no dataset.
GoToMainPage ==
    /\ dbLoaded
    /\ page = "saved"
    /\ backend # "ok" \/ DOMAIN datasets = {}
    /\ page' = "app"
    /\ lastOp' = NoCall
    /\ UNCHANGED <<UiFrame, datasets, nextId, db_session, data, filename, column_types,
                   selected_dataset_id, input, ret>>

Init ==
    /\ backend \in {"ok", "unconfigured"}
    /\ dbLoaded = FALSE /\ datasets = << >> /\ nextId = 1 /\ now = 0 /\ db_session = NoSession
    /\ IdleAuth /\ IdleSession /\ IdleCall
    /\ input = NoFile
    /\ output = RetNone
    /\ pc = "ui"

Next ==
    \/ ImportDatabase
    \/ BackendFails
    \/ BackendRecovers
    \/ ClickLogin
    \/ ClickRegister
    \/ ClickLogout
    \/ UploadNew
    \/ ClickSaveUploaded
    \/ GoToSavedDatasets
    \/ \E id \in 1..MaxSaves : ClickView(id) \/ ClickDelete(id)
    \/ ClickLoadForAnalysis
    \/ ClickBack
    \/ GoToMainPage

Spec == Init /\ [][Next]_vars

\* The step saved a dataset, or listed, showed, loaded or deleted a stored
\* one.
ActsOnStoredDataset ==
    \/ lastOp'.op = "save" /\ ret'.kind = "id"
    \/ lastOp'.op = "list" /\ ret'.kind = "list" /\ Len(ret'.list) > 0
    \/ lastOp'.op = "view" /\ ret'.kind = "dataset"
    \/ lastOp'.op = "load"
    \/ lastOp'.op = "delete" /\ ret'.kind = "bool" /\ ret'.value

\* C2: a dataset is saved to the store, and a saved dataset is listed,
\* loaded into the session or deleted, only while the session is
\* authenticated.
C2_GatedByCredentialCheck ==
    [][ActsOnStoredDataset => is_authenticated]_vars

\* The part of C2 about saving: a dataset is saved only while the session
\* is authenticated.
C2_SaveIsGated ==
    [][(lastOp'.op = "save") => is_authenticated]_vars

\* A stored dataset has been loaded into the session for analysis.
C2_Reached ==
    /\ lastOp.op = "load"
    /\ ~data.none
    /\ ~is_authenticated

\* ---------------------------------- the session's table and its type map
\* The session after a login as the default account on the main page; then
\* the dataset actions of the two pages.
SessionInit ==
    /\ backend = "ok" /\ dbLoaded = TRUE /\ datasets = << >>
    /\ nextId = 1 /\ now = 0 /\ db_session = NoSession
    /\ \E salt \in Salts :
          LET o == login_user(<< >>, "demo", "demo", salt)
          IN  /\ registered_users = o.registered_users
              /\ is_authenticated = TRUE
              /\ username = "demo"
              /\ user_id = 1
    /\ IdleSession /\ IdleCall
    /\ input = NoFile
    /\ output = RetNone
    /\ pc = "ui"

SessionNext ==
    \/ UploadNew
    \/ ClickSaveUploaded
    \/ GoToSavedDatasets
    \/ \E id \in 1..MaxSaves : ClickView(id) \/ ClickDelete(id)
    \/ ClickLoadForAnalysis
    \/ ClickBack
    \/ GoToMainPage

SpecSession == SessionInit /\ [][SessionNext]_vars

\* C12: an upload whose load fails (unsupported format, parse failure)
\* leaves the session's table, filename and column type map as they were.
C12_FailedUploadRetainsState ==
    [][(lastOp'.op = "upload" /\ ret'.kind = "raised")
          => UNCHANGED <<data, filename, column_types>>]_vars

\* An upload of a file of an unsupported format has failed in a session
\* that holds the table of an earlier upload.
C12_Witness ==
    /\ lastOp.op = "upload" /\ ret.kind = "raised"
    /\ input.ext = "CSV"
    /\ ~data.none
    /\ filename = <<"data", "xlsx">>

\* C13: after every replacement of the session's table, by an upload or by
\* the load of a saved dataset, the session's column type map is the
\* classifier's output for the new table.
C13_TypeMapRecomputed ==
    (lastOp.op \in {"upload", "load"} /\ ret.kind = "ok")
        => column_types = get_column_types(data)

\* A saved dataset with a timestamp column has been loaded into the session.
C13_Reached ==
    /\ lastOp.op = "load"
    /\ \E i \in DOMAIN data.columns : data.rows[1][i][1] = "iso"

\* ---------------------------------------- statistics: analyze_distributions
\* Natural numbers beyond the machine integer, as base-1000 digits, least
\* significant first: the moments of a column exceed 2^31.
BigBase == 1000

RECURSIVE ToBig(_)
ToBig(n) == IF n = 0 THEN <<>> ELSE <<n % BigBase>> \o ToBig(n \div BigBase)

RECURSIVE BigAdd(_, _, _)
BigAdd(a, b, carry) ==
    IF a = <<>> /\ b = <<>> THEN ToBig(carry)
    ELSE LET x == IF a = <<>> THEN 0 ELSE Head(a)
             y == IF b = <<>> THEN 0 ELSE Head(b)
             t == x + y + carry
         IN  <<t % BigBase>> \o BigAdd(IF a = <<>> THEN a ELSE Tail(a),
                                       IF b = <<>> THEN b ELSE Tail(b),
                                       t \div BigBase)

RECURSIVE BigMulDigit(_, _, _)
BigMulDigit(a, d, carry) ==
    IF a = <<>> THEN ToBig(carry)
    ELSE LET t == Head(a) * d + carry
         IN  <<t % BigBase>> \o BigMulDigit(Tail(a), d, t \div BigBase)

RECURSIVE BigMul(_, _)
BigMul(a, b) ==
    IF b = <<>> THEN <<>>
    ELSE BigAdd(BigMulDigit(a, Head(b), 0), <<0>> \o BigMul(a, Tail(b)), 0)

RECURSIVE BigTrim(_)
BigTrim(a) ==
    IF a = <<>> THEN a
    ELSE IF a[Len(a)] = 0 THEN BigTrim(SubSeq(a, 1, Len(a) - 1)) ELSE a

RECURSIVE BigLessTrimmed(_, _)
BigLessTrimmed(a, b) ==
    IF Len(a) # Len(b) THEN Len(a) < Len(b)
    ELSE IF a = <<>> THEN FALSE
    ELSE IF a[Len(a)] # b[Len(b)] THEN a[Len(a)] < b[Len(b)]
    ELSE BigLessTrimmed(SubSeq(a, 1, Len(a) - 1), SubSeq(b, 1, Len(b) - 1))

BigLess(a, b) == BigLessTrimmed(BigTrim(a), BigTrim(b))

Abs(n) == IF n < 0 THEN 0 - n ELSE n

\* A skewness value: not a number, or the number with sign `sign` whose
\* square is num/den (num, den as digits).
SkewNaN == [kind |-> "nan", sign |-> 0, num |-> <<>>, den |-> <<1>>]
SkewValue(sign, num, den) == [kind |-> "num", sign |-> sign, num |-> num, den |-> den]

\* data[col].dropna() in row order, and sorted ascending.
RECURSIVE NonMissing(_, _, _)
NonMissing(df, i, r) ==
    IF r = 0 THEN <<>>
    ELSE IF df.rows[r][i] = Null THEN NonMissing(df, i, r - 1)
    ELSE Append(NonMissing(df, i, r - 1), df.rows[r][i][2])

RECURSIVE SortAscending(_)
SortAscending(xs) ==
    IF xs = <<>> THEN xs ELSE Insert(SortAscending(Tail(xs)), Head(xs))

\* Series.skew(): NaN for fewer than 3 values, 0 for no variance, else
\* G1 = n*sqrt(n-1)/(n-2) * M3/M2^1.5 over the sums M2, M3 of the squared
\* and cubed deviations. With d = n*x - sum(x), A = sum d^2, B = sum d^3:
\* G1^2 = n^2 (n-1) B^2 / ((n-2)^2 A^3), and G1 has the sign of B.
skew(xs) ==
    LET n == Len(xs)
        sum == SumSeq(xs)
        d == [k \in DOMAIN xs |-> n * xs[k] - sum]
        A == SumSeq([k \in DOMAIN xs |-> d[k] * d[k]])
        B == SumSeq([k \in DOMAIN xs |-> d[k] * d[k] * d[k]])
        bigA == ToBig(A)
        bigB == ToBig(Abs(B))
    IN  IF n < 3 THEN SkewNaN
        ELSE IF A = 0 \/ B = 0 THEN SkewValue(0, <<>>, <<1>>)
        ELSE SkewValue(IF B > 0 THEN 1 ELSE -1,
                       BigMul(ToBig(n * n * (n - 1)), BigMul(bigB, bigB)),
                       BigMul(ToBig((n - 2) * (n - 2)),
                              BigMul(bigA, BigMul(bigA, bigA))))

\* Series.kurtosis(): NaN for fewer than 4 values (its value is not
\* modelled further).
kurtosis(xs) == IF Len(xs) < 4 THEN "nan" ELSE "number"

\* The comparisons of a skewness value with -b and b, for b^2 = bnum/bden;
\* every comparison with NaN is false.
AbsLessThan(s, bnum, bden) ==
    BigLess(BigMulDigit(s.num, bden, 0), BigMulDigit(s.den, bnum, 0))

GreaterThanNeg(s, bnum, bden) ==
    s.kind = "num" /\ (s.sign >= 0 \/ AbsLessThan(s, bnum, bden))
LessThanPos(s, bnum, bden) ==
    s.kind = "num" /\ (s.sign <= 0 \/ AbsLessThan(s, bnum, bden))
AtMostNeg(s, bnum, bden) ==
    s.kind = "num" /\ s.sign < 0 /\ ~AbsLessThan(s, bnum, bden)
AtLeastPos(s, bnum, bden) ==
    s.kind = "num" /\ s.sign > 0 /\ ~AbsLessThan(s, bnum, bden)

\* Mutant: the boundaries 0.5 and 1 fall in the lower class.
interpret_skewness_inclusive(skewness) ==
    IF skewness.kind = "num" /\ ~AbsLessThan([skewness EXCEPT !.num = skewness.den,
                                                             !.den = skewness.num], 4, 1)
    THEN "Approximately symmetric"
    ELSE IF skewness.kind = "num"
            /\ ~AbsLessThan([skewness EXCEPT !.num = skewness.den,
                                             !.den = skewness.num], 1, 1)
    THEN "Moderately skewed"
    ELSE "Highly skewed"

\* Mutant: the first test is written as its negation, `not (skewness <= -0.5
\* or skewness >= 0.5)`, which is true for NaN.
interpret_skewness_negated(skewness) ==
    IF ~(AtMostNeg(skewness, 1, 4) \/ AtLeastPos(skewness, 1, 4))
    THEN "Approximately symmetric"
    ELSE IF \/ GreaterThanNeg(skewness, 1, 1) /\ AtMostNeg(skewness, 1, 4)
            \/ AtLeastPos(skewness, 1, 4) /\ LessThanPos(skewness, 1, 1)
    THEN "Moderately skewed"
    ELSE "Highly skewed"

\* if -0.5 < skewness < 0.5 / elif -1 < skewness <= -0.5 or
\* 0.5 <= skewness < 1 / else
interpret_skewness(skewness) ==
    IF GreaterThanNeg(skewness, 1, 4) /\ LessThanPos(skewness, 1, 4)
    THEN "Approximately symmetric"
    ELSE IF \/ GreaterThanNeg(skewness, 1, 1) /\ AtMostNeg(skewness, 1, 4)
            \/ AtLeastPos(skewness, 1, 4) /\ LessThanPos(skewness, 1, 1)
    THEN "Moderately skewed"
    ELSE "Highly skewed"

\* What stats.shapiro does with a sample: it raises, or it returns a
\* p-value (in hundredths).
ShapiroRaises == [raises |-> TRUE, p |-> 0]
ShapiroReturns(p) == [raises |-> FALSE, p |-> p]
NoPValue == <<"None", 0>>
PValue(p) == <<"p", p>>

\* Mutant: the test is run from 3 values on.
normality_from3(sample, shapiro) ==
    IF Len(sample) >= 3
    THEN IF shapiro = ShapiroRaises
         THEN [tested |-> TRUE, shapiro_p_value |-> NoPValue,
               normal_distribution |-> "Test failed"]
         ELSE [tested |-> TRUE, shapiro_p_value |-> PValue(shapiro.p),
               normal_distribution |-> IF shapiro.p > 5 THEN "Yes" ELSE "No"]
    ELSE [tested |-> FALSE, shapiro_p_value |-> NoPValue,
          normal_distribution |-> "Insufficient data"]

\* The normality step: `shapiro` is what stats.shapiro does if it is called.
\* (A sample of more than 5000 values is first cut to 5000 with a fixed
\* seed; the tables here are shorter.)
normality(sample, shapiro) ==
    IF Len(sample) > 3
    THEN IF shapiro = ShapiroRaises
         THEN [tested |-> TRUE, shapiro_p_value |-> NoPValue,
               normal_distribution |-> "Test failed"]
         ELSE [tested |-> TRUE, shapiro_p_value |-> PValue(shapiro.p),
               normal_distribution |-> IF shapiro.p > 5 THEN "Yes" ELSE "No"]
    ELSE [tested |-> FALSE, shapiro_p_value |-> NoPValue,
          normal_distribution |-> "Insufficient data"]

\* Mutant: values on the bounds count as outliers.
tukey_outliers_inclusive(xs) ==
    LET sorted == SortAscending(xs)
        Q1 == quantile4(sorted, 1)
        Q3 == quantile4(sorted, 3)
        IQR == Q3 - Q1
        lower_bound == 2 * Q1 - 3 * IQR
        upper_bound == 2 * Q3 + 3 * IQR
    IN  SelectSeq(xs, LAMBDA x : 8 * x <= lower_bound \/ 8 * x >= upper_bound)

\* The outlier step over the non-missing values xs of the column, in row
\* order: Q1, Q3 and IQR are times 4 and the bounds times 8, so that
\* x < Q1 - 1.5*IQR is 8*x < 2*(4*Q1) - 3*(4*IQR).
tukey_outliers(xs) ==
    LET sorted == SortAscending(xs)
        Q1 == quantile4(sorted, 1)
        Q3 == quantile4(sorted, 3)
        IQR == Q3 - Q1
        lower_bound == 2 * Q1 - 3 * IQR
        upper_bound == 2 * Q3 + 3 * IQR
    IN  SelectSeq(xs, LAMBDA x : 8 * x < lower_bound \/ 8 * x > upper_bound)

\* The row of a column that is entirely missing: the loop skips it and the
\* row keeps no value.
SkippedRow == [skipped |-> TRUE]

\* analyze_distributions: one row per numeric column; shapiro[col] is what
\* stats.shapiro does for the column's sample. The percentage is the
\* fraction <<100 * outliers, non-missing count>>.
analyze_distributions(df, numeric_columns, shapiro) ==
    [col \in Range(numeric_columns) |->
        LET i == ColumnIndex(df, col)
            sample == NonMissing(df, i, Len(df.rows))
            tested == normality(sample, shapiro[col])
            skewness == skew(sample)
            outliers == tukey_outliers(sample)
        IN  IF sample = <<>> THEN SkippedRow
            ELSE [skipped |-> FALSE,
                  tested |-> tested.tested,
                  shapiro_p_value |-> tested.shapiro_p_value,
                  normal_distribution |-> tested.normal_distribution,
                  skewness |-> skewness,
                  kurtosis |-> kurtosis(sample),
                  skewness_interpretation |-> interpret_skewness(skewness),
                  outliers |-> outliers,
                  outliers_count |-> Len(outliers),
                  outliers_percentage |-> <<100 * Len(outliers), Len(sample)>>]]

\* ------------------------------------------- skewness classes: the harness
\* The skewness values -sqrt(num/den), 0, sqrt(num/den) and NaN.
MaxSkewNum == 9
MaxSkewDen == 4
SkewInputs ==
    {SkewNaN, SkewValue(0, <<>>, <<1>>)}
    \cup {SkewValue(sign, ToBig(num), ToBig(den)) :
             sign \in {-1, 1}, num \in 1..MaxSkewNum, den \in 1..MaxSkewDen}

SkewInit ==
    /\ IdleStore /\ IdleAuth /\ IdleSession /\ IdleCall
    /\ input \in SkewInputs
    /\ output = RetNone
    /\ pc = "input"

InterpretSkewness ==
    /\ pc = "input"
    /\ output' = [skewness_interpretation |-> interpret_skewness(input)]
    /\ pc' = "interpreted"
    /\ UNCHANGED <<input, storeVars, authVars, sessionVars, lastOp, ret>>

SkewNext == InterpretSkewness
SpecSkew == SkewInit /\ [][SkewNext]_vars

\* |s| < sqrt(bnum/bden), for a skewness s that is a number.
AbsBelow(s, bnum, bden) ==
    BigLess(BigMul(s.num, ToBig(bden)), BigMul(s.den, ToBig(bnum)))

\* C19: every skewness value s (a number) gets exactly one class: approximately
\* symmetric iff |s| < 0.5, moderately skewed iff 0.5 <= |s| < 1, highly
\* skewed iff |s| >= 1, for both signs.
C19_SkewnessClasses ==
    (pc = "interpreted" /\ input.kind = "num") =>
        LET label == output.skewness_interpretation
        IN  /\ label \in {"Approximately symmetric", "Moderately skewed",
                           "Highly skewed"}
            /\ label = "Approximately symmetric" <=> AbsBelow(input, 1, 4)
            /\ label = "Moderately skewed" <=>
                  (~AbsBelow(input, 1, 4) /\ AbsBelow(input, 1, 1))
            /\ label = "Highly skewed" <=> ~AbsBelow(input, 1, 1)

\* The skewness -0.5, on the lower boundary of "moderately skewed", has
\* been classified.
C19_Witness ==
    /\ pc = "interpreted"
    /\ input = SkewValue(-1, ToBig(1), ToBig(4))
    /\ output.skewness_interpretation = "Moderately skewed"

\* --------------------------------------- distribution analysis: the harness
MaxDistRows == 4
DistCells == {Null, Num(0), Num(1), Num(9)}
ShapiroOutcomes == {ShapiroRaises, ShapiroReturns(5), ShapiroReturns(6)}

\* The column 1, 2, 3, 4, 5, 100.
ExampleColumn == <<Num(1), Num(2), Num(3), Num(4), Num(5), Num(100)>>

\* Tables of one numeric column, alone or next to a second numeric column
\* that is entirely missing or holds 1, 2, ...
DistInputs ==
    LET firsts == UNION {[1..n -> DistCells] : n \in 1..MaxDistRows} \cup {ExampleColumn}
        seconds(n) == {[r \in 1..n |-> Null], [r \in 1..n |-> Num(r)]}
    IN  {Frame(<<"a">>, <<"float64">>, [r \in DOMAIN c |-> <<c[r]>>]) : c \in firsts}
        \cup UNION {{Frame(<<"a", "b">>, <<"float64", "float64">>,
                            [r \in DOMAIN c |-> <<c[r], d[r]>>]) :
                        d \in seconds(Len(c))} : c \in firsts}

DistInit ==
    /\ IdleStore /\ IdleAuth /\ IdleSession /\ IdleCall
    /\ input \in DistInputs
    /\ output = RetNone
    /\ pc = "input"

\* app.py, the Statistics tab: analyze_distributions(data,
\* column_types['numeric']).
AnalyzeDistributions ==
    /\ pc = "input"
    /\ \E shapiro \in [Range(input.columns) -> ShapiroOutcomes] :
          output' = [shapiro |-> shapiro,
                     dist_stats |-> analyze_distributions(
                                        input, get_column_types(input).numeric, shapiro)]
    /\ pc' = "analysed"
    /\ UNCHANGED <<input, storeVars, authVars, sessionVars, lastOp, ret>>

DistNext == AnalyzeDistributions
SpecDist == DistInit /\ [][DistNext]_vars

\* The non-missing values of column col of the table analysed.
ValuesOf(col) ==
    LET i == ColumnIndex(input, col)
    IN  [k \in 1..count(input, i) |->
            LET present == {r \in DOMAIN input.rows : input.rows[r][i] # Null}
                r == CHOOSE r \in present :
                        Cardinality({q \in present : q <= r}) = k
            IN  input.rows[r][i][2]]

\* C18: for each numeric column that is not entirely missing the normality
\* test is run iff the column has more than 3 non-missing values; with 3 or
\* fewer the verdict is "Insufficient data", a test that throws gives "Test
\* failed", and otherwise the verdict is "Yes" iff p > 0.05.
C18_NormalityTest ==
    pc = "analysed" =>
        \A col \in DOMAIN output.dist_stats :
            LET row == output.dist_stats[col]
                n == count(input, ColumnIndex(input, col))
                outcome == output.shapiro[col]
            IN  n > 0 =>
                  /\ ~row.skipped
                  /\ row.tested <=> n > 3
                  /\ n <= 3 => row.normal_distribution = "Insufficient data"
                  /\ (n > 3 /\ outcome = ShapiroRaises)
                        => row.normal_distribution = "Test failed"
                  /\ (n > 3 /\ outcome # ShapiroRaises)
                        => /\ row.normal_distribution \in {"Yes", "No"}
                           /\ row.normal_distribution = "Yes" <=> outcome.p > 5
                           /\ row.shapiro_p_value = PValue(outcome.p)

\* A column with exactly 3 non-missing values among 4 rows has been
\* analysed, next to a column on which the test was run and threw.
C18_Witness ==
    /\ pc = "analysed"
    /\ Len(input.columns) = 2
    /\ Len(input.rows) = 4
    /\ count(input, 1) = 3
    /\ output.dist_stats["a"].normal_distribution = "Insufficient data"
    /\ output.dist_stats["b"].normal_distribution = "Test failed"

\* Linear-interpolation quartile k of ascending values, times 4.
QuartileTimes4(col, k) ==
    LET xs == ValuesOf(col)
        n == Len(xs)
        ascending == [p \in 1..n |->
                         xs[CHOOSE j \in DOMAIN xs :
                               Cardinality({q \in DOMAIN xs :
                                   xs[q] < xs[j] \/ (xs[q] = xs[j] /\ q < j)}) = p - 1]]
        below == ((n - 1) * k) \div 4 + 1
        part == ((n - 1) * k) % 4
    IN  IF part = 0 THEN 4 * ascending[below]
        ELSE (4 - part) * ascending[below] + part * ascending[below + 1]

\* x lies strictly outside [Q1 - 1.5*IQR, Q3 + 1.5*IQR] of column col.
StrictlyOutside(col, x) ==
    LET Q1 == QuartileTimes4(col, 1)
        Q3 == QuartileTimes4(col, 3)
    IN  \/ 8 * x < 2 * Q1 - 3 * (Q3 - Q1)
        \/ 8 * x > 2 * Q3 + 3 * (Q3 - Q1)

\* C20: the outliers counted are exactly the non-missing values strictly
\* outside [Q1 - 1.5*IQR, Q3 + 1.5*IQR], the percentage is relative to the
\* non-missing count, and in the column 1, 2, 3, 4, 5, 100 the value 100 is
\* flagged and no other.
C20_TukeyOutliers ==
    pc = "analysed" =>
        \A col \in DOMAIN output.dist_stats :
            LET row == output.dist_stats[col]
                xs == ValuesOf(col)
            IN  ~row.skipped =>
                  /\ row.outliers_count
                        = Cardinality({j \in DOMAIN xs : StrictlyOutside(col, xs[j])})
                  /\ row.outliers = SelectSeq(xs, LAMBDA x : StrictlyOutside(col, x))
                  /\ row.outliers_percentage = <<100 * row.outliers_count, Len(xs)>>
                  /\ (col = "a" /\ [r \in DOMAIN input.rows |-> input.rows[r][1]]
                                        = ExampleColumn)
                        => row.outliers = <<100>>

\* The column 1, 2, 3, 4, 5, 100 has been analysed.
C20_Witness ==
    /\ pc = "analysed"
    /\ [r \in DOMAIN input.rows |-> input.rows[r][1]] = ExampleColumn
    /\ output.dist_stats["a"].outliers_count = 1

\* ------------------------------------- descriptive statistics: the harness
\* Tables of up to two columns of text, numbers or booleans; a text or
\* number column may miss any of its values.
MaxDescRows == 3
DescCells(dtype) ==
    CASE dtype = "object" -> {Null, Str(0)}
      [] dtype = "float64" -> {Null, Num(1)}
      [] OTHER -> {Bool(0), Bool(1)}

DescColumns(n) ==
    UNION {{[dtype |-> dtype, cells |-> cells] : cells \in [1..n -> DescCells(dtype)]} :
              dtype \in {"object", "float64", "bool"}}

DescInputs ==
    UNION {{Frame([i \in DOMAIN cols |-> ColNames[i]],
                  [i \in DOMAIN cols |-> cols[i].dtype],
                  [r \in 1..n |-> [i \in DOMAIN cols |-> cols[i].cells[r]]]) :
               cols \in UNION {[1..k -> DescColumns(n)] : k \in 0..2}} :
              n \in 0..MaxDescRows}

DescInit ==
    /\ IdleStore /\ IdleAuth /\ IdleSession /\ IdleCall
    /\ input \in DescInputs
    /\ output = RetNone
    /\ pc = "input"

\* app.py, the Statistics tab: generate_descriptive_stats(data).
DescribeTable ==
    /\ pc = "input"
    /\ output' = generate_descriptive_stats(input)
    /\ pc' = "described"
    /\ UNCHANGED <<input, storeVars, authVars, sessionVars, lastOp, ret>>

DescNext == DescribeTable
SpecDescribe == DescInit /\ [][DescNext]_vars

\* The value-count table of column i of the table described is empty.
EmptyValueCounts(i) == \A r \in DOMAIN input.rows : input.rows[r][i] = Null

\* On a result: a column that is not a NumPy number and has an empty
\* value-count table carries the no-data marker, every other such column a
\* most-frequent value and its share of the rows.
GuardedRows ==
    \A i \in DOMAIN input.columns :
        ~is_np_number(input.dtypes[i]) =>
            IF EmptyValueCounts(i)
            THEN output.row[i].most_common = NoDataMarker
            ELSE /\ output.row[i].most_common.kind = "value"
                 /\ output.row[i].most_common.among # {}
                 /\ output.row[i].most_common.among
                       \subseteq {input.rows[r][i] : r \in DOMAIN input.rows} \ {Null}

\* C21: descriptive statistics returns one row per table column and does
\* not fail; for a non-numeric column whose value-count table is empty the
\* most-frequent value and percentage are the no-data marker.
C21_OneRowPerColumn ==
    pc = "described" =>
        /\ ~output.raised
        /\ Len(output.index) = Len(input.columns)
        /\ GuardedRows

\* The same on the tables that have a column.
C21_GuardBeforeIndexing ==
    (pc = "described" /\ Len(input.columns) > 0) =>
        /\ ~output.raised
        /\ output.index = input.columns
        /\ GuardedRows

\* A table without columns has been described and the call raised.
C21_Reached ==
    /\ pc = "described"
    /\ Len(input.columns) = 0
    /\ output.raised

\* A text column that is entirely missing has been described next to a text
\* column with values.
C21_GuardReached ==
    /\ pc = "described"
    /\ Len(input.columns) = 2 /\ Len(input.rows) = MaxDescRows
    /\ input.dtypes = <<"object", "object">>
    /\ EmptyValueCounts(1) /\ ~EmptyValueCounts(2)
    /\ ~output.raised
    /\ output.row[1].most_common = NoDataMarker

\* --------------------------------------------------- utils/visualization.py
\* The chart returned by create_scatter_plot: whether the trendline trace and
\* the correlation annotation were added, and the (x, y) pairs np.corrcoef and
\* np.polyfit were given.
ScatterFigure(overlays, pairs) ==
    [kind |-> "figure", raised |-> FALSE, trendline |-> overlays,
     annotation |-> overlays, pairs |-> pairs]

\* create_scatter_plot. x_values and y_values are the two columns with their
\* own missing rows dropped, each keeping its row labels. np.isnan is false
\* on every value left, so the mask, taken over the union of the two label
\* sets, is true for every row where x or y is present (mask.sum() is their
\* number); x_values[mask] and y_values[mask] are then x_values and y_values
\* themselves. np.corrcoef and np.polyfit pair them by position and raise
\* when their lengths differ.
create_scatter_plot(df, x_col, y_col, color_col) ==
    LET xi == ColumnIndex(df, x_col)
        yi == ColumnIndex(df, y_col)
        x_values == NonMissing(df, xi, Len(df.rows))
        y_values == NonMissing(df, yi, Len(df.rows))
        mask_sum == Cardinality({r \in DOMAIN df.rows :
                                    df.rows[r][xi] # Null \/ df.rows[r][yi] # Null})
    IN  IF color_col # None THEN ScatterFigure(FALSE, <<>>)
        ELSE IF ~(Len(x_values) > 1 /\ Len(y_values) > 1) THEN ScatterFigure(FALSE, <<>>)
        ELSE IF ~(mask_sum > 1) THEN ScatterFigure(FALSE, <<>>)
        ELSE IF Len(x_values) # Len(y_values)
        THEN Raised("ValueError: all the input array dimensions must match")
        ELSE ScatterFigure(TRUE, [k \in DOMAIN x_values |-> <<x_values[k], y_values[k]>>])

\* ------------------------------------------------- scatter chart: the harness
MaxScatterRows == 3
ScatterCells == {Null, Num(1), Num(2)}
ScatterInputs ==
    UNION {{Frame(<<"a", "b">>, <<"float64", "float64">>, rows) :
               rows \in [1..n -> [1..2 -> ScatterCells]]} : n \in 0..MaxScatterRows}
ColorChoices == {None, "b"}

ScatterInit ==
    /\ IdleStore /\ IdleAuth /\ IdleSession /\ IdleCall
    /\ input \in ScatterInputs
    /\ output = RetNone
    /\ pc = "input"

\* app.py, the Visualizations tab: create_scatter_plot(data, x_col, y_col,
\* color_col).
PlotScatter ==
    /\ pc = "input"
    /\ \E color_col \in ColorChoices :
          output' = [color_col |-> color_col,
                     fig |-> create_scatter_plot(input, "a", "b", color_col)]
    /\ pc' = "plotted"
    /\ UNCHANGED <<input, storeVars, authVars, sessionVars, lastOp, ret>>

ScatterNext == PlotScatter
SpecScatter == ScatterInit /\ [][ScatterNext]_vars

\* The (x, y) pairs of the rows of the table plotted where both are present,
\* in row order.
RECURSIVE PairedRows(_)
PairedRows(r) ==
    IF r = 0 THEN <<>>
    ELSE IF input.rows[r][1] = Null \/ input.rows[r][2] = Null THEN PairedRows(r - 1)
    ELSE Append(PairedRows(r - 1), <<input.rows[r][1][2], input.rows[r][2][2]>>)

\* C22: with no color column the scatter chart never fails, adds the
\* trendline and the correlation annotation iff at least 2 rows have both x
\* and y, and computes them over exactly those rows.
C22_PairedOverlays ==
    (pc = "plotted" /\ output.color_col = None) =>
        LET paired == PairedRows(Len(input.rows))
        IN  /\ ~output.fig.raised
            /\ output.fig.trendline <=> Len(paired) >= 2
            /\ output.fig.annotation <=> Len(paired) >= 2
            /\ output.fig.trendline => output.fig.pairs = paired

\* The same on the tables where x and y are missing on the same rows.
C22_SameRowsMissing ==
    (/\ pc = "plotted" /\ output.color_col = None
     /\ \A r \in DOMAIN input.rows : input.rows[r][1] = Null <=> input.rows[r][2] = Null) =>
        LET paired == PairedRows(Len(input.rows))
        IN  /\ ~output.fig.raised
            /\ output.fig.trendline <=> Len(paired) >= 2
            /\ output.fig.annotation <=> Len(paired) >= 2
            /\ output.fig.trendline => output.fig.pairs = paired

\* x = 1, 2, missing and y = 1, missing, 2 have been plotted: one row has
\* both, and the overlays were computed from (1, 1) and (2, 2).
C22_Reached ==
    /\ pc = "plotted" /\ output.color_col = None
    /\ input.rows = <<<<Num(1), Num(1)>>, <<Num(2), Null>>, <<Null, Num(2)>>>>
    /\ ~output.fig.raised
    /\ output.fig.trendline
    /\ output.fig.pairs = <<<<1, 1>>, <<2, 2>>>>

\* ------------------------------------- utils/visualization.py: the box plot
\* unique_groups > 20, nlargest(20)
TopGroups == 20

\* The chart returned by create_box_plot: the rows of the table handed to
\* px.box, and the title's parts.
BoxFigure(plotted, column, group_col, top) ==
    [kind |-> "figure", plotted |-> plotted,
     title |-> [column |-> column, by |-> group_col, top_groups |-> top]]

\* What data[group_col].value_counts().nlargest(20).index can be: 20 groups
\* none of which is less frequent than a group left out (the order of equally
\* frequent groups is pandas' own).
LargestGroups(df, gi) ==
    LET vc == value_counts(df, gi)
        n == Cardinality(DOMAIN vc)
    IN  IF n <= TopGroups THEN {DOMAIN vc}
        ELSE LET least == CHOOSE c \in Range(vc) :
                              /\ Cardinality({g \in DOMAIN vc : vc[g] >= c}) >= TopGroups
                              /\ Cardinality({g \in DOMAIN vc : vc[g] > c}) < TopGroups
                 tied == {g \in DOMAIN vc : vc[g] = least}
                 kept == TopGroups - Cardinality({g \in DOMAIN vc : vc[g] > least})
                 left == {Range(l) : l \in [1..(Cardinality(tied) - kept) -> tied]}
             IN  {{g \in DOMAIN vc : vc[g] >= least} \ L :
                     L \in {l \in left : Cardinality(l) = Cardinality(tied) - kept}}

\* Mutant: the truncation starts at 20 distinct groups.
create_box_plot_from20(df, column, group_col, top_groups) ==
    IF group_col # None
    THEN IF nunique(df, ColumnIndex(df, group_col)) >= TopGroups
         THEN BoxFigure(SelectSeq(df.rows,
                                  LAMBDA row : row[ColumnIndex(df, group_col)] \in top_groups),
                        column, group_col, TRUE)
         ELSE BoxFigure(df.rows, column, group_col, FALSE)
    ELSE BoxFigure(df.rows, column, None, FALSE)

\* create_box_plot; top_groups is the index nlargest(20) returns.
create_box_plot(df, column, group_col, top_groups) ==
    IF group_col # None
    THEN IF nunique(df, ColumnIndex(df, group_col)) > TopGroups
         THEN BoxFigure(SelectSeq(df.rows,
                                  LAMBDA row : row[ColumnIndex(df, group_col)] \in top_groups),
                        column, group_col, TRUE)
         ELSE BoxFigure(df.rows, column, group_col, FALSE)
    ELSE BoxFigure(df.rows, column, None, FALSE)

\* ----------------------------------------------------- box plot: the harness
\* Tables of a value column "a" and a group column "b": row r is of group
\* (r - 1) % groups, so that the first `extra` groups have two rows and the
\* others one; a last row may miss its group.
MaxGroups == 22
GroupCounts == {1, TopGroups - 1, TopGroups, TopGroups + 1, MaxGroups}
ExtraRows == {0, 1, 5}

GenBoxFrame(groups, extra, missing) ==
    Frame(<<"a", "b">>, <<"float64", "object">>,
          [r \in 1..(groups + extra) |-> <<Num(r), Str((r - 1) % groups)>>]
          \o (IF missing THEN <<<<Num(0), Null>>>> ELSE <<>>))

BoxInputs ==
    UNION {{GenBoxFrame(groups, extra, missing) :
               extra \in {e \in ExtraRows : e <= groups}, missing \in BOOLEAN} :
              groups \in GroupCounts}

BoxInit ==
    /\ IdleStore /\ IdleAuth /\ IdleSession /\ IdleCall
    /\ input \in BoxInputs
    /\ output = RetNone
    /\ pc = "input"

\* app.py, the Visualizations tab: create_box_plot(data, box_col, group_col).
PlotBox ==
    /\ pc = "input"
    /\ \E group_col \in {None, "b"}, top_groups \in LargestGroups(input, 2) :
          output' = [group_col |-> group_col,
                     fig |-> create_box_plot(input, "a", group_col, top_groups)]
    /\ pc' = "boxed"
    /\ UNCHANGED <<input, storeVars, authVars, sessionVars, lastOp, ret>>

BoxNext == PlotBox
SpecBox == BoxInit /\ [][BoxNext]_vars

\* The number of rows of the table plotted whose group is g.
RowsOfGroup(g) == Cardinality({r \in DOMAIN input.rows : input.rows[r][2] = g})

\* C23: with a group column of more than 20 distinct values the box plot
\* plots exactly the rows of 20 groups, none of them less frequent than a
\* group left out, and its title says so; with 20 or fewer distinct values
\* it plots all rows and the title does not say so.
C23_TopTwentyGroups ==
    (pc = "boxed" /\ output.group_col # None) =>
        LET groups == {input.rows[r][2] : r \in DOMAIN input.rows} \ {Null}
            plotted == {output.fig.plotted[k][2] : k \in DOMAIN output.fig.plotted}
        IN  IF Cardinality(groups) > 20
            THEN /\ Cardinality(plotted) = 20
                 /\ plotted \subseteq groups
                 /\ \A g \in plotted, h \in groups \ plotted : RowsOfGroup(g) >= RowsOfGroup(h)
                 /\ output.fig.plotted
                       = SelectSeq(input.rows, LAMBDA row : row[2] \in plotted)
                 /\ output.fig.title.top_groups
            ELSE /\ output.fig.plotted = input.rows
                 /\ ~output.fig.title.top_groups

\* A table of 22 groups, 5 of them with two rows, and a row without group
\* has been plotted by group: 25 of its 28 rows are plotted.
C23_Witness ==
    /\ pc = "boxed" /\ output.group_col = "b"
    /\ nunique(input, 2) = 22
    /\ Len(input.rows) = 28
    /\ Len(output.fig.plotted) = 25
    /\ output.fig.title.top_groups

\* ------------------------------------------ dataset store: the db sessions
StoreOps == {"save", "list", "get", "delete", "update"}

\* C24: every Dataset Store operation has closed the database session it
\* acquired when it returns, on every path; no session stays open after a
\* call.
C24_SessionsReleased ==
    [][lastOp'.op \in StoreOps => db_session' # SessionOpen]_vars

\* The same for the calls made while the database is reachable.
C24_ReleasedWhenReachable ==
    [][(lastOp'.op \in StoreOps /\ backend = "ok") => db_session' = SessionClosed]_vars

\* delete_dataset was called while the database was unreachable: it
\* returned False and its session is still open.
C24_Reached ==
    /\ lastOp.op = "delete"
    /\ backend = "down"
    /\ ret = RetBool(FALSE)
    /\ db_session = SessionOpen

\* ----------------------------------------- classifier: the table of no rows
\* C25: classifying a table of no rows raises no division by zero: every
\* column that is neither numeric nor datetime has u = 0 distinct values and
\* is classified categorical, the ratio u/n not being evaluated.
C25_EmptyTableCategorical ==
    (pc = "classified" /\ Len(input.rows) = 0) =>
        /\ ~output.raised
        /\ \A i \in DOMAIN input.columns :
              (~is_numeric_dtype(input.dtypes[i]) /\ ~is_datetime64_dtype(input.dtypes[i]))
                 => /\ nunique(input, i) = 0
                    /\ ColumnKind(input, i) = "categorical"
                    /\ KindListed(input.columns[i], output) = "categorical"

\* A table of no rows with a text column next to a number column has been
\* classified.
C25_Witness ==
    /\ pc = "classified"
    /\ Len(input.rows) = 0
    /\ input.dtypes = <<"object", "float64">>
    /\ output.categorical = <<"a">>
    /\ output.numeric = <<"b">>

\* --------------------------------- utils/statistics.py: what a call writes
\* The names a function assigns through (item assignment, .loc[...] = ...,
\* .columns = ...). Each of them is bound, in the function, to a new object:
\* desc_stats to describe().transpose(), distribution_results to
\* pd.DataFrame(index=...), grouped_stats to agg(...).reset_index();
\* generate_correlation_matrix only rebinds correlation_matrix.
generate_descriptive_stats_writes == {"desc_stats"}
generate_correlation_matrix_writes == {}
analyze_distributions_writes == {"distribution_results"}
\* Mutant: the coefficient of variation is stored in a column of the table
\* passed in.
calculate_statistics_by_group_writes_data == {"grouped_stats", "data"}
calculate_statistics_by_group_writes == {"grouped_stats"}

\* The table passed as `data` after a call that assigns through `writes`: an
\* assignment through `data` would add or overwrite a column of it.
TableAfter(df, writes) ==
    IF "data" \in writes
    THEN Frame(Append(df.columns, "written"), Append(df.dtypes, "float64"),
               [r \in DOMAIN df.rows |-> Append(df.rows[r], Null)])
    ELSE df

\* ----------------------------------------- statistics engine: the harness
\* The session holds a table; the four operations are called on it in any
\* order, any number of times.
PureInputs ==
    {df \in GroupInputs : Len(df.rows) <= 2}
    \cup {Frame(<<"a", "b">>, <<"float64", "float64">>, rows) :
             rows \in [1..2 -> [1..2 -> {Null, Num(1), Num(2)}]]}

PureInit ==
    /\ IdleStore /\ IdleAuth /\ IdleCall
    /\ data \in PureInputs
    /\ filename = NoFileName
    /\ column_types = get_column_types(data)
    /\ page = "app" /\ selected_dataset_id = NoId
    /\ input = NoData /\ output = RetNone /\ pc = "stats"

PureFrame == <<storeVars, authVars, filename, column_types, page,
               selected_dataset_id, input, pc, ret>>

CallDescriptive ==
    /\ pc = "stats"
    /\ output' = generate_descriptive_stats(data)
    /\ data' = TableAfter(data, generate_descriptive_stats_writes)
    /\ lastOp' = Call("generate_descriptive_stats", NoId)
    /\ UNCHANGED PureFrame

CallCorrelation ==
    /\ pc = "stats"
    /\ output' = generate_correlation_matrix(data, column_types.numeric)
    /\ data' = TableAfter(data, generate_correlation_matrix_writes)
    /\ lastOp' = Call("generate_correlation_matrix", NoId)
    /\ UNCHANGED PureFrame

CallDistributions ==
    /\ pc = "stats"
    /\ \E shapiro \in [Range(column_types.numeric) -> ShapiroOutcomes] :
          output' = [shapiro |-> shapiro,
                     dist_stats |-> analyze_distributions(data, column_types.numeric,
                                                          shapiro)]
    /\ data' = TableAfter(data, analyze_distributions_writes)
    /\ lastOp' = Call("analyze_distributions", NoId)
    /\ UNCHANGED PureFrame

CallGrouped ==
    /\ pc = "stats"
    /\ \E numeric_column \in Range(column_types.numeric),
          group_column \in Range(column_types.categorical) :
          output' = calculate_statistics_by_group(data, numeric_column, group_column)
    /\ data' = TableAfter(data, calculate_statistics_by_group_writes)
    /\ lastOp' = Call("calculate_statistics_by_group", NoId)
    /\ UNCHANGED PureFrame

PureNext == CallDescriptive \/ CallCorrelation \/ CallDistributions \/ CallGrouped
SpecPure == PureInit /\ [][PureNext]_vars

StatisticsOps == {"generate_descriptive_stats", "generate_correlation_matrix",
                  "analyze_distributions", "calculate_statistics_by_group"}

MaxLifeSaves == 2
NoHistory == [saved |-> {}, deleted |-> {}]

LifeInit ==
    /\ backend = "ok" /\ dbLoaded = TRUE /\ datasets = << >>
    /\ nextId = 1 /\ now = 0 /\ db_session = NoSession
    /\ IdleAuth /\ IdleSession /\ IdleCall
    /\ input \in StoreTables
    /\ output = NoHistory
    /\ pc = "store"

LifeFrame == <<backend, dbLoaded, now, authVars, sessionVars, input, pc>>

LifeSave ==
    /\ nextId <= MaxLifeSaves
    /\ \E name \in SaveNames, description \in SaveDescriptions :
          Apply("save", nextId,
                save_dataset(name, description, <<"data", "csv">>, input,
                             get_column_types(input)))
    /\ output' = [output EXCEPT !.saved = IF ret'.kind = "id" THEN @ \cup {ret'.id} ELSE @]
    /\ UNCHANGED LifeFrame

LifeUpdate(id) ==
    /\ \E name \in UpdateNames, description \in UpdateDescriptions :
          Apply("update", id, update_dataset(id, name, description))
    /\ UNCHANGED <<LifeFrame, output>>

LifeDelete(id) ==
    /\ Apply("delete", id, delete_dataset(id))
    /\ output' = [output EXCEPT !.deleted = IF ret'.value THEN @ \cup {id} ELSE @]
    /\ UNCHANGED LifeFrame

LifeGet(id) ==
    /\ Apply("get", id, get_dataset(id))
    /\ UNCHANGED <<LifeFrame, output>>

LifeList ==
    /\ \E order \in Orders(DOMAIN datasets) :
          Apply("list", NoId, get_all_datasets(order))
    /\ UNCHANGED <<LifeFrame, output>>

LifeNext ==
    \/ LifeSave
    \/ LifeList
    \/ \E id \in 1..(MaxLifeSaves + 1) : LifeUpdate(id) \/ LifeDelete(id) \/ LifeGet(id)

SpecLife == LifeInit /\ [][LifeNext]_vars

\* The ids an earlier Save returned and no later Delete returned True for.
LiveIds == output.saved \ output.deleted

\* After a Get or a List: Get(id) returned a record iff id is live, and the
\* List holds one summary for each live id and nothing else.
LiveIdsServed ==
    /\ lastOp.op = "get" => (ret.kind = "dataset" <=> lastOp.id \in LiveIds)
    /\ (lastOp.op = "get" /\ ret.kind = "dataset") => ret.id = lastOp.id
    /\ lastOp.op = "list" =>
          /\ {ret.list[k].id : k \in DOMAIN ret.list} = LiveIds
          /\ Len(ret.list) = Cardinality(LiveIds)

\* C27: after any sequence of Save, UpdateMetadata and Delete without
\* backend failure, Get(id) returns a record iff id was returned by an
\* earlier Save and no later Delete(id) returned true, List holds a summary
\* for exactly those ids, and a second Delete of the same id returns false.
C27_Lifecycle ==
    /\ []LiveIdsServed
    /\ [][(lastOp'.op = "delete" /\ lastOp'.id \in output.deleted)
             => ret' = RetBool(FALSE)]_vars

\* Two datasets were saved and the first deleted; a second Delete of it has
\* returned False.
C27_Witness ==
    /\ output.saved = {1, 2}
    /\ output.deleted = {1}
    /\ lastOp = Call("delete", 1)
    /\ ret = RetBool(FALSE)

\* ------------------------------------------- credential store: the user ids
\* C28: after any sequence of register and login calls, the default
\* account's lazy creation included, no two credential records have the
\* same user_id.
C28_UniqueUserIds ==
    \A a, b \in DOMAIN registered_users :
        a # b => registered_users[a].user_id # registered_users[b].user_id

\* The default account was created by a login and a second account was
\* registered after it.
C28_Witness ==
    /\ DOMAIN registered_users = {"demo", "alice"}
    /\ HasDefaultAccount(registered_users)
    /\ registered_users["alice"].user_id = 2

\* ------------------------------- app.py: "Save Current Dataset" (sidebar)
\* One run of the sidebar's save block. `pressed` holds the buttons for which
\* st.button returns True in this run. The block is drawn for an
\* authenticated session that holds a table; the name and description inputs
\* and the "Confirm Save" button are created inside the branch of the first
\* button, and save_dataset is called inside the branch of the second.
save_current_block(pressed) ==
    IF ~(~data.none /\ is_authenticated)
    THEN [drawn |-> FALSE, dialog |-> FALSE, saves |-> FALSE]
    ELSE IF "Save Current Dataset" \in pressed
    THEN IF "Confirm Save" \in pressed
         THEN [drawn |-> TRUE, dialog |-> TRUE, saves |-> TRUE]
         ELSE [drawn |-> TRUE, dialog |-> TRUE, saves |-> FALSE]
    ELSE [drawn |-> TRUE, dialog |-> FALSE, saves |-> FALSE]

\* The values of the dialog's two inputs: none entered, or a name and a
\* description.
NoEntry == [entered |-> FALSE, dataset_name |-> None, description |-> None]
Entry(name, description) ==
    [entered |-> TRUE, dataset_name |-> name, description |-> description]
EnteredNames == {"data", "n1"}
EnteredDescriptions == {"", "d1"}

\* A script run triggered by one widget: st.button returns True only for the
\* button whose click triggered the run. pc is "ui" when the dialog is not on
\* the page, "dialog" when the run drew it, and "confirmed" after the run
\* that the click on "Confirm Save" triggered.
RunSaveBlock(pressed, entry, stage) ==
    LET run == save_current_block(pressed)
    IN  /\ IF run.saves
           THEN Apply("save_current", nextId,
                      save_dataset(entry.dataset_name, entry.description, filename,
                                   data, column_types))
           ELSE /\ lastOp' = NoCall
                /\ ret' = RetNone
                /\ UNCHANGED <<datasets, nextId, db_session>>
        /\ output' = entry
        /\ pc' = IF stage = "confirmed" THEN stage
                 ELSE IF run.dialog THEN "dialog" ELSE "ui"
        /\ UNCHANGED <<backend, dbLoaded, now, authVars, sessionVars, input>>

\* A file is dropped on the uploader: the run draws the sidebar without the
\* dialog.
UploadAndRedraw ==
    /\ \E f \in UiFiles :
          /\ input' = f
          /\ ProcessUpload(f)
    /\ pc' = "ui"
    /\ output' = NoEntry
    /\ UNCHANGED <<storeVars, authVars, page, selected_dataset_id>>

\* The click on "Save Current Dataset".
ClickSaveCurrent ==
    /\ save_current_block({}).drawn
    /\ RunSaveBlock({"Save Current Dataset"}, NoEntry, "run")

\* The user changes the name or the description in the dialog: the change
\* triggers a run.
EnterSaveDetails ==
    /\ pc = "dialog"
    /\ \E name \in EnteredNames, description \in EnteredDescriptions :
          RunSaveBlock({}, Entry(name, description), "run")

\* The click on "Confirm Save", with the name and description of the dialog.
ClickConfirmSave ==
    /\ pc = "dialog"
    /\ nextId <= MaxSaves
    /\ \E name \in EnteredNames, description \in EnteredDescriptions :
          RunSaveBlock({"Confirm Save"}, Entry(name, description), "confirmed")

ConfirmNext == UploadAndRedraw \/ ClickSaveCurrent \/ EnterSaveDetails \/ ClickConfirmSave
SpecConfirm == SessionInit /\ [][ConfirmNext]_vars
\* Every click the user makes is followed by its script run.
SpecConfirmLive == SpecConfirm /\ WF_vars(ConfirmNext)

\* C29: an authenticated user with a loaded table who clicks "Save Current
\* Dataset" and then "Confirm Save" eventually causes save_dataset to be
\* called with the entered name and description.
C29_ConfirmSaves ==
    (pc = "confirmed") ~> (lastOp.op = "save_current")

\* The run triggered by "Confirm Save" has finished, with a name and a
\* description entered, and no dataset is stored.
C29_Reached ==
    /\ pc = "confirmed"
    /\ output = Entry("n1", "d1")
    /\ is_authenticated /\ ~data.none
    /\ lastOp = NoCall
    /\ DOMAIN datasets = {}

\* ------------------------------- distribution analysis: undefined skewness
\* C30: a numeric column with 1 or 2 non-missing values has a skewness that
\* is not a number and is labelled "Highly skewed"; every column that is not
\* entirely missing gets one of the three labels.
C30_UndefinedSkewnessLabel ==
    pc = "analysed" =>
        \A col \in DOMAIN output.dist_stats :
            LET row == output.dist_stats[col]
                n == count(input, ColumnIndex(input, col))
            IN  /\ n \in {1, 2} => (/\ ~row.skipped
                                    /\ row.skewness = SkewNaN
                                    /\ row.skewness_interpretation = "Highly skewed")
                /\ n > 0 => (/\ ~row.skipped
                             /\ row.skewness_interpretation
                                   \in {"Approximately symmetric", "Moderately skewed",
                                        "Highly skewed"})
                /\ n >= 3 => row.skewness.kind = "num"

\* A column of 4 rows with 2 values has been analysed next to a column whose
\* 4 values are all present.
C30_Witness ==
    /\ pc = "analysed"
    /\ Len(input.columns) = 2
    /\ Len(input.rows) = 4
    /\ count(input, 1) = 2
    /\ count(input, 2) = 4
    /\ output.dist_stats["a"].skewness_interpretation = "Highly skewed"
    /\ output.dist_stats["b"].skewness.kind = "num"

====
